---- MODULE Spec2Model ----
(***************************************************************************)
(* A model of the slang front end: the compilation manager                 *)
(* (source/compilation/Compilation.cpp), the conditional-directive and     *)
(* macro tables of the preprocessor (source/lexing/Preprocessor.h) and the *)
(* error cap of the lexer (source/lexing/Lexer.cpp).                       *)
(***************************************************************************)
EXTENDS Integers, Sequences, FiniteSets, TLC

(***************************************************************************)
(* Bounds of the model.                                                    *)
(***************************************************************************)
MaxName == 3
MaxTrees == 2
MaxBranchDepth == 2
MaxPPDiags == 1
MaxMacros == 2
MaxSource == 2
MaxErrorLimit == 1
MaxTypes == 2
MaxOperands == 2
MaxArguments == 2
MaxStringified == 2
MaxDirective == 3
MaxDefinitions == 3
MaxScriptScopes == 1
MaxScriptMembers == 2
MaxLiterals == 2

VARIABLES
    \* ---- Compilation (Compilation.cpp) ----
    finalized,          \* bool Compilation::finalized
    forcedDiagnostics,  \* bool Compilation::forcedDiagnostics
    sourceManager,      \* const SourceManager* (NoManager = nullptr)
    syntaxTrees,        \* std::vector<std::shared_ptr<SyntaxTree>>
    compilationUnits,   \* std::vector<const CompilationUnitSymbol*>
    instantiatedNames,  \* flat_hash_set<string_view>
    definitionMap,      \* map (name, scope) -> Definition
    rootMembers,        \* members of the RootSymbol, in insertion order
    topInstances,       \* RootSymbol::topInstances
    rootUnits,          \* RootSymbol::compilationUnits
    diags,              \* Compilation::diags (semantic diagnostics)
    scriptMembers,      \* for each script scope created: the members added to it, in order
    visited,            \* the symbols the DiagnosticVisitor has visited
    lastCall,           \* the last entry point called and how it returned
    \* ---- Preprocessor (Preprocessor.h) ----
    macros,             \* std::unordered_map<string_view, MacroDef>, as name -> kind
    branchStack,        \* std::deque<BranchEntry>
    branchLog,          \* for each frame of branchStack: how many of its branches were active
    ppDiags,            \* the diagnostics the preprocessor emitted
    ppLast,             \* the last directive, token or API call handled, and its outcome
    \* ---- Macro expansion (Preprocessor.h) ----
    macroBodies,        \* the body token list of each defined macro
    usageSite,          \* the macro whose usage in the source is being expanded
    expStack,           \* the nested expansions in progress: macro and position in its body
    expandedTokens,     \* the tokens the expansion has produced
    expDiags,           \* the diagnostics the expansion emitted
    expSteps,           \* the number of steps the expansion has taken
    expPhase,           \* "idle", "expanding", "done" or "failed"
    \* ---- Lexer (Lexer.cpp) ----
    source,             \* the characters of the buffer, the terminating '\0' last
    sourceBuffer,       \* the position of the next character (1 = originalBegin)
    maxErrors,          \* LexerOptions::maxErrors
    diagnostics,        \* the Diagnostics the lexer was constructed with
    lexed,              \* the last call of lex: its mode and the token it returned
    written,            \* the trivia and raw text of the tokens lex returned, in order
    \* ---- Types of the compilation (Compilation.cpp) ----
    vectorTypeCache,    \* flat_hash_map<uint32_t, const PackedArrayType*>: key -> object
    typesAllocated,     \* how many PackedArrayType objects emplace has created
    typeCall,           \* the last call of getType(width, flags) and the object it returned
    \* the expression binder
    bound,              \* the expression bound last: its form, operands, result and diagnostics
    \* token concatenation
    pasted,             \* the last call of concatenateTokens: left, right and the token returned
    stringified,        \* the last call of stringify: its arguments and the token returned
    \* lookup of definitions
    lookup,             \* the last call of getDefinition: name, scope and the definition returned
    \* the parser of integer literals
    parsed              \* the integer expressions parsed so far and the diagnostics of the parser

compVars == <<finalized, forcedDiagnostics, sourceManager, syntaxTrees,
              compilationUnits, instantiatedNames, definitionMap, rootMembers,
              topInstances, rootUnits, diags, scriptMembers, visited, lastCall>>

ppVars == <<macros, branchStack, branchLog, ppDiags, ppLast>>

lexVars == <<source, sourceBuffer, maxErrors, diagnostics, lexed, written>>

typeVars == <<vectorTypeCache, typesAllocated, typeCall>>

expVars == <<macroBodies, usageSite, expStack, expandedTokens, expDiags, expSteps, expPhase>>

(***************************************************************************)
(* Syntax nodes (shape only).  Names are small integers ordered as the     *)
(* strings they stand for; NoName is the empty string of a missing name.   *)
(***************************************************************************)
Names == 1..MaxName
NoName == 0
NoManager == 0
SourceManagers == {1, 2}
RootScope == "root"

DeclKinds == {"ModuleDeclaration", "InterfaceDeclaration", "ProgramDeclaration"}

Inst(n) == [kind |-> "HierarchyInstantiation", type |-> n]
Declarator(n, init) == [name |-> n, hasInitializer |-> init]
\* ParameterDeclarationSyntax: keyword is "parameter", "localparam" or "" (left off)
ParamDecl(kw, ds) == [keyword |-> kw, declarators |-> ds]
ParamStmt(kw, ds) == [kind |-> "ParameterDeclarationStatement", parameter |-> ParamDecl(kw, ds)]
\* header.parameters is optional: hasParameters says whether the port list is there
Header(n, hasP, ps) == [name |-> n, hasParameters |-> hasP, parameters |-> ps]
DeclP(k, n, hasP, ps, ms) == [kind |-> k, header |-> Header(n, hasP, ps), members |-> ms]
Decl(k, n, ms) == DeclP(k, n, FALSE, <<>>, ms)
Mod(n, ms) == Decl("ModuleDeclaration", n, ms)
Ifc(n, ms) == Decl("InterfaceDeclaration", n, ms)
Prog(n, ms) == Decl("ProgramDeclaration", n, ms)
GenerateRegion(ms) == [kind |-> "GenerateRegion", members |-> ms]
GenerateBlock(ms) == [kind |-> "GenerateBlock", members |-> ms]
LoopGenerate(b) == [kind |-> "LoopGenerate", block |-> b]
CaseItem(k, c) == [kind |-> k, clause |-> c]
CaseGenerate(items) == [kind |-> "CaseGenerate", items |-> items]
IfGenerate(b) == [kind |-> "IfGenerate", block |-> b, hasElse |-> FALSE]
IfElseGenerate(b, e) == [kind |-> "IfGenerate", block |-> b, hasElse |-> TRUE, elseClause |-> e]
DataDecl == [kind |-> "DataDeclaration"]

\* A syntax tree: its root is a CompilationUnit holding members, or one bare member.
Unit(ms) == [kind |-> "CompilationUnit", members |-> ms]

\* The syntax trees handed to addSyntaxTree: a plain module of every name, and
\* one tree for each construct findInstantiations and addDefinition look at.
TreePool ==
    { Unit(<<Mod(n, <<>>)>>) : n \in Names } \cup
    { \* a bare module declaration as the root node, instantiating module 2
      Mod(1, <<Inst(2)>>),
      \* instantiations below generate constructs, in branches of every kind
      Unit(<<Mod(2, <<GenerateRegion(<<IfElseGenerate(DataDecl, GenerateBlock(<<Inst(1)>>))>>),
                      CaseGenerate(<<CaseItem("StandardCaseItem", DataDecl),
                                     CaseItem("PatternCaseItem", Inst(2)),
                                     CaseItem("DefaultCaseItem",
                                              LoopGenerate(IfGenerate(Inst(MaxName))))>>)>>)>>),
      \* a nested module shadowing the name it instantiates
      Unit(<<Mod(MaxName, <<Mod(1, <<>>), Inst(1)>>)>>),
      \* the shadowing of an inner declaration ends with it
      Unit(<<Mod(1, <<Ifc(1, <<Prog(2, <<>>), Inst(2)>>), Inst(2)>>)>>),
      \* an interface and a program at the top level, each instantiating a module
      Unit(<<Ifc(1, <<Inst(2)>>)>>),
      Prog(2, <<Inst(1)>>),
      \* parameters in the port list and in the body, and two definitions in one unit
      Unit(<<DeclP("ModuleDeclaration", 2, TRUE,
                   <<ParamDecl("", <<Declarator(1, FALSE)>>),
                     ParamDecl("localparam", <<Declarator(2, FALSE), Declarator(3, TRUE)>>),
                     ParamDecl("", <<Declarator(4, TRUE)>>)>>,
                   <<ParamStmt("parameter", <<Declarator(5, FALSE)>>), Inst(NoName), DataDecl>>),
             Mod(1, <<>>)>>),
      Unit(<<>>),
      DataDecl }

\* Trees of modules that instantiate: below nested declarations of the
\* same and of other names, below generate constructs, with an empty type
\* name, and below a top-level interface
InstantiationTrees ==
    {Unit(<<Mod(1, <<Inst(2)>>)>>),
     Unit(<<Mod(2, <<Inst(NoName), Inst(3)>>), Mod(3, <<>>)>>),
     Unit(<<Mod(3, <<Mod(1, <<>>), Inst(1)>>)>>),
     Unit(<<Mod(1, <<Ifc(1, <<Prog(2, <<>>), Inst(2)>>), Inst(2)>>)>>),
     Unit(<<Mod(1, <<Mod(2, <<>>),
                     Prog(3, <<Ifc(1, <<>>), Inst(2), Inst(1), Inst(3)>>),
                     Inst(2), Inst(3), Inst(1)>>)>>),
     Unit(<<Mod(2, <<GenerateBlock(<<Mod(1, <<>>)>>), Inst(1)>>)>>),
     Unit(<<Mod(2, <<GenerateRegion(<<IfElseGenerate(Inst(3), GenerateBlock(<<Inst(1)>>))>>)>>)>>),
     Unit(<<Mod(3, <<CaseGenerate(<<CaseItem("StandardCaseItem", Inst(2)),
                                    CaseItem("DefaultCaseItem",
                                             LoopGenerate(IfGenerate(Inst(1))))>>)>>)>>),
     Unit(<<Ifc(1, <<Inst(2)>>)>>),
     Mod(2, <<Mod(2, <<Inst(2)>>), IfGenerate(Inst(3))>>)}

\* Modules with parameters: the parameter port lists (none among them, and
\* an empty one) and the bodies
PortLists ==
    {<<ParamDecl("", <<Declarator(1, FALSE)>>),
       ParamDecl("localparam", <<Declarator(2, FALSE), Declarator(3, TRUE)>>),
       ParamDecl("", <<Declarator(4, TRUE)>>)>>,
     <<ParamDecl("localparam", <<Declarator(1, TRUE)>>),
       ParamDecl("parameter", <<Declarator(2, TRUE)>>),
       ParamDecl("", <<Declarator(3, TRUE)>>)>>,
     <<ParamDecl("parameter", <<Declarator(1, TRUE)>>),
       ParamDecl("", <<Declarator(2, TRUE), Declarator(3, TRUE)>>)>>,
     <<>>}
ParameterBodies ==
    {<<>>,
     <<ParamStmt("parameter", <<Declarator(5, TRUE)>>), DataDecl,
       ParamStmt("localparam", <<Declarator(6, TRUE), Declarator(7, FALSE)>>)>>,
     <<ParamStmt("localparam", <<Declarator(5, TRUE)>>), Inst(NoName)>>}
ParameterTrees ==
    {Unit(<<DeclP("ModuleDeclaration", n, TRUE, ports, body)>>) :
        n \in {1, 2}, ports \in PortLists, body \in ParameterBodies}
    \cup {Unit(<<DeclP("ModuleDeclaration", n, FALSE, <<>>, body)>>) :
            n \in {1, 2}, body \in ParameterBodies}

(***************************************************************************)
(* Compilation::getParamDecls and Compilation::addDefinition.              *)
(* The state threaded through them is acc = [parameters, diags] and        *)
(* st = [defs, diags].                                                     *)
(***************************************************************************)
RECURSIVE getParamDeclsFrom(_, _, _, _, _)
getParamDeclsFrom(i, syntax, isPort, isLocal, acc) ==
    IF i > Len(syntax.declarators) THEN acc
    ELSE LET decl == syntax.declarators[i]
             param == [name |-> decl.name, isLocal |-> isLocal, isPort |-> isPort,
                       hasInitializer |-> decl.hasInitializer]
             err == IF decl.hasInitializer THEN <<>>
                    ELSE IF ~isPort THEN <<"BodyParamNoInitializer">>
                    ELSE IF isLocal THEN <<"LocalParamNoInitializer">>
                    ELSE <<>>
         IN getParamDeclsFrom(i + 1, syntax, isPort, isLocal,
                [parameters |-> Append(acc.parameters, param), diags |-> acc.diags \o err])

getParamDecls(syntax, isPort, isLocal, acc) == getParamDeclsFrom(1, syntax, isPort, isLocal, acc)

\* the loop with a declaration without keyword taken as a parameter
RECURSIVE portParamsFrom_noInherit(_, _, _, _)
portParamsFrom_noInherit(i, declarations, lastLocal, acc) ==
    IF i > Len(declarations) THEN acc
    ELSE portParamsFrom_noInherit(i + 1, declarations, lastLocal,
             getParamDecls(declarations[i], TRUE, declarations[i].keyword = "localparam", acc))

\* the loop over syntax.header.parameters->declarations, carrying lastLocal
RECURSIVE portParamsFrom(_, _, _, _)
portParamsFrom(i, declarations, lastLocal, acc) ==
    IF i > Len(declarations) THEN acc
    ELSE LET declaration == declarations[i]
             local == IF declaration.keyword # "" THEN declaration.keyword = "localparam"
                      ELSE lastLocal
         IN portParamsFrom(i + 1, declarations, local, getParamDecls(declaration, TRUE, local, acc))

\* the loop over syntax.members looking for ParameterDeclarationStatement
RECURSIVE bodyParamsFrom(_, _, _, _)
bodyParamsFrom(i, members, hasPortParams, acc) ==
    IF i > Len(members) THEN acc
    ELSE LET member == members[i] IN
         IF member.kind = "ParameterDeclarationStatement"
         THEN LET isLocal == hasPortParams \/ member.parameter.keyword = "localparam"
              IN bodyParamsFrom(i + 1, members, hasPortParams,
                                getParamDecls(member.parameter, FALSE, isLocal, acc))
         ELSE bodyParamsFrom(i + 1, members, hasPortParams, acc)

\* the map with the value assigned to the key, an existing key too
emplace_assign(map, key, value) ==
    [k \in DOMAIN map \cup {key} |-> IF k = key THEN value ELSE map[k]]

\* definitionMap.emplace: an existing key keeps its value
emplace(map, key, value) == IF key \in DOMAIN map THEN map ELSE (key :> value) @@ map

\* addDefinition keyed by the scope it is called for, a compilation unit too
addDefinition_inUnit(syntax, kindOfScope, scope, origin, st) ==
    LET hasPortParams == syntax.header.hasParameters
        acc0 == [parameters |-> <<>>, diags |-> st.diags]
        acc1 == IF hasPortParams
                THEN portParamsFrom(1, syntax.header.parameters, FALSE, acc0)
                ELSE acc0
        acc2 == bodyParamsFrom(1, syntax.members, hasPortParams, acc1)
        definition == [name |-> syntax.header.name, kind |-> syntax.kind,
                       origin |-> origin, parameters |-> acc2.parameters]
        key == <<definition.name, scope>>
    IN [defs |-> emplace(st.defs, key, definition), diags |-> acc2.diags]

addDefinition(syntax, kindOfScope, scope, origin, st) ==
    LET hasPortParams == syntax.header.hasParameters
        acc0 == [parameters |-> <<>>, diags |-> st.diags]
        acc1 == IF hasPortParams
                THEN portParamsFrom(1, syntax.header.parameters, FALSE, acc0)
                ELSE acc0
        acc2 == bodyParamsFrom(1, syntax.members, hasPortParams, acc1)
        definition == [name |-> syntax.header.name, kind |-> syntax.kind,
                       origin |-> origin, parameters |-> acc2.parameters]
        key == IF kindOfScope = "CompilationUnit" THEN <<definition.name, RootScope>>
               ELSE <<definition.name, scope>>
    IN [defs |-> emplace(st.defs, key, definition), diags |-> acc2.diags]

\* Scope::addMembers of a compilation unit: a module, interface or program
\* declaration is registered as a definition; other members become symbols of
\* the unit and touch nothing of the compilation.
addMembers(member, unitId, origin, st) ==
    IF member.kind \in DeclKinds
    THEN addDefinition(member, "CompilationUnit", unitId, origin, st)
    ELSE st

(***************************************************************************)
(* Compilation::findInstantiations (both overloads) and containsName.      *)
(* fs = [stack, found]: the scopeStack and the found set, both passed by   *)
(* reference in the code.                                                  *)
(***************************************************************************)
RECURSIVE containsNameFrom(_, _, _)
containsNameFrom(i, scopeStack, name) ==
    IF i > Len(scopeStack) THEN FALSE
    ELSE IF name \in scopeStack[i] THEN TRUE
    ELSE containsNameFrom(i + 1, scopeStack, name)

containsName(scopeStack, name) == containsNameFrom(1, scopeStack, name)

\* first loop of findInstantiations(module): the names of the nested definitions
localDefsOf(module) ==
    { module.members[i].header.name :
        i \in { j \in 1..Len(module.members) :
                  /\ module.members[j].kind \in DeclKinds
                  /\ module.members[j].header.name # NoName } }

popScope(stack) == SubSeq(stack, 1, Len(stack) - 1)

RECURSIVE findInstantiationsModule(_, _)
RECURSIVE findInstantiations(_, _)
RECURSIVE findInstantiationsAll(_, _, _)
RECURSIVE findInstantiationsItems(_, _, _)

findInstantiationsAll(i, members, fs) ==
    IF i > Len(members) THEN fs
    ELSE findInstantiationsAll(i + 1, members, findInstantiations(members[i], fs))

findInstantiationsItems(i, items, fs) ==
    IF i > Len(items) THEN fs
    ELSE LET item == items[i] IN
         IF item.kind \in {"DefaultCaseItem", "StandardCaseItem"}
         THEN findInstantiationsItems(i + 1, items, findInstantiations(item.clause, fs))
         ELSE findInstantiationsItems(i + 1, items, fs)

\* the scan of a declaration that leaves its names on the stack
findInstantiationsModule_noPop(module, fs) ==
    LET localDefs == localDefsOf(module)
        pushed == IF localDefs # {} THEN [fs EXCEPT !.stack = Append(@, localDefs)] ELSE fs
    IN findInstantiationsAll(1, module.members, pushed)

findInstantiationsModule(module, fs) ==
    LET localDefs == localDefsOf(module)
        pushed == IF localDefs # {} THEN [fs EXCEPT !.stack = Append(@, localDefs)] ELSE fs
        after == findInstantiationsAll(1, module.members, pushed)
    IN IF localDefs # {} THEN [after EXCEPT !.stack = popScope(@)] ELSE after

findInstantiations(node, fs) ==
    CASE node.kind = "HierarchyInstantiation" ->
            IF node.type # NoName /\ ~containsName(fs.stack, node.type)
            THEN [fs EXCEPT !.found = @ \cup {node.type}]
            ELSE fs
      [] node.kind \in DeclKinds -> findInstantiationsModule(node, fs)
      [] node.kind \in {"GenerateRegion", "GenerateBlock"} ->
            findInstantiationsAll(1, node.members, fs)
      [] node.kind = "LoopGenerate" -> findInstantiations(node.block, fs)
      [] node.kind = "CaseGenerate" -> findInstantiationsItems(1, node.items, fs)
      [] node.kind = "IfGenerate" ->
            LET thenFs == findInstantiations(node.block, fs)
            IN IF node.hasElse THEN findInstantiations(node.elseClause, thenFs) ELSE thenFs
      [] OTHER -> fs

\* line 129 / 138: which members of a tree are scanned for instantiations
scannedForInstantiations(member) == member.kind = "ModuleDeclaration"


(***************************************************************************)
(* Compilation::addSyntaxTree                                              *)
(***************************************************************************)
membersOf(tree) == IF tree.kind = "CompilationUnit" THEN tree.members ELSE <<tree>>

\* addSyntaxTreeCheck without the test of finalized
addSyntaxTreeCheck_noLatch(isFinal, current, sm) ==
    IF sm # current /\ current # NoManager THEN "logic_error: source manager"
    ELSE "ok"

\* addSyntaxTreeCheck without the else branch that throws on another source manager
addSyntaxTreeCheck_anyManager(isFinal, current, sm) ==
    IF isFinal THEN "logic_error: finalized" ELSE "ok"

\* lines 109-117: the two checks that throw std::logic_error
addSyntaxTreeCheck(isFinal, current, sm) ==
    IF isFinal THEN "logic_error: finalized"
    ELSE IF sm # current /\ current # NoManager THEN "logic_error: source manager"
    ELSE "ok"

\* lines 123-142: addMembers on every member, and the scan of module declarations;
\* ws = [defs, diags, instances]
RECURSIVE addTreeMembersFrom(_, _, _, _)
addTreeMembersFrom(i, members, unitId, ws) ==
    IF i > Len(members) THEN ws
    ELSE LET member == members[i]
             st == addMembers(member, unitId, <<unitId, i>>, [defs |-> ws.defs, diags |-> ws.diags])
             found == IF scannedForInstantiations(member)
                      THEN findInstantiations(member, [stack |-> <<>>, found |-> ws.instances]).found
                      ELSE ws.instances
         IN addTreeMembersFrom(i + 1, members, unitId,
                               [defs |-> st.defs, diags |-> st.diags, instances |-> found])

unitSymbol(id) == [kind |-> "CompilationUnit", name |-> NoName, id |-> <<id, 0>>]

\* the record of a call: the entry point, the source manager of the tree passed
\* (NoManager for the other entry points), how it returned, and whether the
\* call before it was to the same entry point
call(op, sm, result) ==
    [op |-> op, sm |-> sm, result |-> result, repeated |-> lastCall.op = op]

addSyntaxTree(tree, sm) ==
    LET check == addSyntaxTreeCheck(finalized, sourceManager, sm) IN
    IF check # "ok"
    THEN /\ lastCall' = call("addSyntaxTree", sm, check)
         /\ UNCHANGED <<finalized, forcedDiagnostics, sourceManager, syntaxTrees,
                        compilationUnits, instantiatedNames, definitionMap, rootMembers,
                        topInstances, rootUnits, diags, scriptMembers, visited>>
    ELSE LET unitId == Len(compilationUnits) + 1
             ws == addTreeMembersFrom(1, membersOf(tree), unitId,
                       [defs |-> definitionMap, diags |-> diags, instances |-> {}])
         IN /\ Len(syntaxTrees) < MaxTrees
            /\ sourceManager' = IF sourceManager = NoManager THEN sm ELSE sourceManager
            /\ definitionMap' = ws.defs
            /\ diags' = ws.diags
            /\ instantiatedNames' = instantiatedNames \cup ws.instances
            /\ rootMembers' = Append(rootMembers, unitSymbol(unitId))
            /\ compilationUnits' = Append(compilationUnits, unitSymbol(unitId))
            /\ syntaxTrees' = Append(syntaxTrees, [root |-> tree, sourceManager |-> sm])
            /\ forcedDiagnostics' = FALSE
            /\ lastCall' = call("addSyntaxTree", sm, "ok")
            /\ UNCHANGED <<finalized, topInstances, rootUnits, scriptMembers, visited>>

(***************************************************************************)
(* Compilation::getRoot                                                    *)
(***************************************************************************)
\* line 168: the definitions that get a top-level instance
isTopLevel(definition, instantiated) ==
    definition.kind = "ModuleDeclaration" /\ definition.name \notin instantiated

\* ModuleInstanceSymbol::instantiate(compilation, definition->name, ..., *definition)
instantiate(definition) ==
    [kind |-> "ModuleInstance", name |-> definition.name, id |-> definition.origin]

\* std::sort(topList, a->name < b->name), as an insertion sort
RECURSIVE insertByName(_, _)
insertByName(sorted, x) ==
    IF sorted = <<>> THEN <<x>>
    ELSE IF x.name < Head(sorted).name THEN <<x>> \o sorted
    ELSE <<Head(sorted)>> \o insertByName(Tail(sorted), x)

RECURSIVE sortByNameFrom(_, _, _)
sortByNameFrom(i, list, sorted) ==
    IF i > Len(list) THEN sorted
    ELSE sortByNameFrom(i + 1, list, insertByName(sorted, list[i]))

\* the list left in the order of the hash table
sortByName_unsorted(list) == list

sortByName(list) == sortByNameFrom(1, list, <<>>)

\* the orders in which the loop of line 164 may walk the hash table
IterationOrders(map) ==
    { order \in [1..Cardinality(DOMAIN map) -> DOMAIN map] :
        \A i, j \in DOMAIN order : i # j => order[i] # order[j] }

\* lines 163-175: the instances created while walking definitionMap in the given order
RECURSIVE topListFrom(_, _, _, _, _)
topListFrom(i, order, map, instantiated, topList) ==
    IF i > Len(order) THEN topList
    ELSE LET definition == map[order[i]] IN
         IF isTopLevel(definition, instantiated)
         THEN topListFrom(i + 1, order, map, instantiated, Append(topList, instantiate(definition)))
         ELSE topListFrom(i + 1, order, map, instantiated, topList)

\* getRootBody without the test of finalized
getRootBody_noLatch ==
    \E order \in IterationOrders(definitionMap) :
        LET topList == topListFrom(1, order, definitionMap, instantiatedNames, <<>>)
        IN /\ rootMembers' = rootMembers \o topList
           /\ topInstances' = sortByName(topList)
           /\ rootUnits' = compilationUnits
           /\ finalized' = TRUE

\* the body of getRoot, also run by getSemanticDiagnostics
getRootBody ==
    IF ~finalized
    THEN \E order \in IterationOrders(definitionMap) :
            LET topList == topListFrom(1, order, definitionMap, instantiatedNames, <<>>)
            IN /\ rootMembers' = rootMembers \o topList
               /\ topInstances' = sortByName(topList)
               /\ rootUnits' = compilationUnits
               /\ finalized' = TRUE
    ELSE UNCHANGED <<rootMembers, topInstances, rootUnits, finalized>>

getRoot ==
    /\ getRootBody
    /\ lastCall' = call("getRoot", NoManager, "ok")
    /\ UNCHANGED <<forcedDiagnostics, sourceManager, syntaxTrees, compilationUnits,
                   instantiatedNames, definitionMap, diags, scriptMembers, visited>>

(***************************************************************************)
(* Compilation::getSemanticDiagnostics                                     *)
(***************************************************************************)
\* the symbol of the k-th script scope, and of its j-th member
scriptUnit(k) == [kind |-> "CompilationUnit", name |-> NoName, id |-> <<0 - k, 0>>]
scriptMember(k, j, kind) == [kind |-> kind, name |-> NoName, id |-> <<0 - k, j>>]

\* Compilation::createScriptScope
createScriptScope ==
    /\ Len(scriptMembers) < MaxScriptScopes
    /\ scriptMembers' = Append(scriptMembers, <<>>)
    /\ rootMembers' = Append(rootMembers, scriptUnit(Len(scriptMembers) + 1))
    /\ lastCall' = call("createScriptScope", NoManager, "ok")
    /\ UNCHANGED <<finalized, forcedDiagnostics, sourceManager, syntaxTrees, compilationUnits,
                   instantiatedNames, definitionMap, topInstances, rootUnits, diags, visited>>

\* the kinds of the members ScriptSession::eval adds to its scope
ScriptMemberKinds == {"Parameter", "Variable"}

\* scope.addMembers(node) and scope.addMember(*symbol) of ScriptSession::eval
addScriptMember(k, kind) ==
    /\ k \in 1..Len(scriptMembers)
    /\ Len(scriptMembers[k]) < MaxScriptMembers
    /\ scriptMembers' = [scriptMembers EXCEPT
                            ![k] = Append(@, scriptMember(k, Len(@) + 1, kind))]
    /\ lastCall' = call("addMember", NoManager, "ok")
    /\ UNCHANGED <<finalized, forcedDiagnostics, sourceManager, syntaxTrees, compilationUnits,
                   instantiatedNames, definitionMap, rootMembers, topInstances, rootUnits,
                   diags, visited>>

\* the symbols ASTVisitor reaches from the root: its members and the
\* members of the script scopes
reachable(members, scripts) ==
    { members[i] : i \in 1..Len(members) } \cup
    UNION { { scripts[k][j] : j \in 1..Len(scripts[k]) } : k \in 1..Len(scripts) }

\* the visit never run
forceDiagnostics_never(forced) == FALSE

\* line 309: whether getRoot().visit(visitor) runs
forceDiagnostics(forced) == ~forced

getSemanticDiagnostics ==
    /\ IF forceDiagnostics(forcedDiagnostics)
       THEN /\ forcedDiagnostics' = TRUE
            /\ getRootBody
            /\ visited' = visited \cup reachable(rootMembers', scriptMembers)
       ELSE UNCHANGED <<forcedDiagnostics, rootMembers, topInstances, rootUnits, finalized,
                        visited>>
    /\ lastCall' = call("getSemanticDiagnostics", NoManager, "ok")
    /\ UNCHANGED <<sourceManager, syntaxTrees, compilationUnits,
                   instantiatedNames, definitionMap, diags, scriptMembers>>

(***************************************************************************)
(* Compilation::getDefinition, and addDefinition called for any scope.     *)
(***************************************************************************)
\* the scopes: the root, two compilation units, the body of a top-level
\* instance with a scope nested in it, and the body of another instance
Scopes == {RootScope, "unit1", "unit2", "top", "top.inner", "other"}

\* scope.asSymbol().kind
scopeKind(scope) ==
    CASE scope = RootScope -> "Root"
      [] scope \in {"unit1", "unit2"} -> "CompilationUnit"
      [] OTHER -> "ModuleInstance"

\* Scope::getParent
getParent(scope) == IF scope = "top.inner" THEN "top" ELSE RootScope

noDefinition == [name |-> NoName, kind |-> "None", origin |-> [scope |-> RootScope, order |-> 0],
                 parameters |-> <<>>]

\* Compilation::getDefinition from searchScope on
RECURSIVE getDefinitionFrom(_, _, _)
getDefinitionFrom(map, lookupName, searchScope) ==
    IF <<lookupName, searchScope>> \in DOMAIN map THEN map[<<lookupName, searchScope>>]
    ELSE IF scopeKind(searchScope) = "Root" THEN noDefinition
    ELSE getDefinitionFrom(map, lookupName, getParent(searchScope))

getDefinition(lookupName, scope) ==
    /\ lookup' = [name |-> lookupName, scope |-> scope,
                  definition |-> getDefinitionFrom(definitionMap, lookupName, scope)]
    /\ UNCHANGED compVars

\* the definitions added: plain modules of two names
DefinitionNames == {1, 2}
DefinitionPool == {Mod(n, <<>>) : n \in DefinitionNames}

\* no call of getDefinition since the definitions last changed
noLookup == [name |-> NoName, scope |-> RootScope, definition |-> noDefinition]

\* a call of addDefinition(syntax, scope); the definition is known by the
\* scope it was added for and by the number of the call
addDefinitionIn(syntax, scope) ==
    LET st == addDefinition(syntax, scopeKind(scope), scope,
                            [scope |-> scope, order |-> Cardinality(DOMAIN definitionMap) + 1],
                            [defs |-> definitionMap, diags |-> diags])
    IN /\ Cardinality(DOMAIN definitionMap) < MaxDefinitions
       /\ definitionMap' = st.defs
       /\ diags' = st.diags
       /\ lookup' = noLookup
       /\ UNCHANGED <<finalized, forcedDiagnostics, sourceManager, syntaxTrees, compilationUnits,
                      instantiatedNames, rootMembers, topInstances, rootUnits, scriptMembers,
                      visited, lastCall>>

InitLookup == lookup = noLookup

(***************************************************************************)
(* The compilation after Compilation::Compilation()                        *)
(***************************************************************************)
InitCompilation ==
    /\ finalized = FALSE
    /\ forcedDiagnostics = FALSE
    /\ sourceManager = NoManager
    /\ syntaxTrees = <<>>
    /\ compilationUnits = <<>>
    /\ instantiatedNames = {}
    /\ definitionMap = <<>>
    /\ rootMembers = <<>>
    /\ topInstances = <<>>
    /\ rootUnits = <<>>
    /\ diags = <<>>
    /\ scriptMembers = <<>>
    /\ visited = {}
    /\ lastCall = [op |-> "Compilation", sm |-> NoManager, result |-> "ok",
                   repeated |-> FALSE]

(***************************************************************************)
(* The preprocessor: the macro table and the stack of conditional          *)
(* directives (Preprocessor.h).  One action handles one directive, one     *)
(* token of the source, or one call of the public interface.               *)
(***************************************************************************)
IntrinsicNames == {"__LINE__", "__FILE__"}
UserNames == {"FOO", "BAR"}
MacroNames == IntrinsicNames \cup UserNames

\* MacroDef: an intrinsic (MacroIntrinsic::Line / File) or a parsed `define
intrinsicDef == "intrinsic"
syntaxDef == "syntax"

\* MacroDef::isIntrinsic
isIntrinsic(def) == def = intrinsicDef

\* the macro table at construction: the intrinsic macros are registered
intrinsicMacros == [n \in IntrinsicNames |-> intrinsicDef]

\* Preprocessor::isDefined
isDefined(table, name) == name \in DOMAIN table

\* BranchEntry(bool taken) with the default hasElse = false
BranchEntry_neverTaken(taken) == [anyTaken |-> FALSE, currentActive |-> taken, hasElse |-> FALSE]

BranchEntry(taken) == [anyTaken |-> taken, currentActive |-> taken, hasElse |-> FALSE]

\* tokens pass only while every frame of the branch stack is active
allActive_topOnly(stack) == stack = <<>> \/ stack[Len(stack)].currentActive

allActive(stack) == \A i \in 1..Len(stack) : stack[i].currentActive

top(stack) == stack[Len(stack)]
setTop(stack, entry) == [stack EXCEPT ![Len(stack)] = entry]
pop(stack) == SubSeq(stack, 1, Len(stack) - 1)

\* the count of active branches of a chain, kept up to 2
bump(n, active) == IF active /\ n < 2 THEN n + 1 ELSE n

handled(op, name, result) == [op |-> op, name |-> name, result |-> result]

ppError(code) == ppDiags' = Append(ppDiags, code)

\* `ifdef X / `ifndef X: push BranchEntry(defined(X)) or its negation
handleIfDefDirective(name, inverted) ==
    LET taken == isDefined(macros, name) # inverted IN
    /\ Len(branchStack) < MaxBranchDepth
    /\ branchStack' = Append(branchStack, BranchEntry(taken))
    /\ branchLog' = Append(branchLog, bump(0, taken))
    /\ ppLast' = handled(IF inverted THEN "ifndef" ELSE "ifdef", "", "ok")
    /\ UNCHANGED <<macros, ppDiags>>

\* a conditional directive with no open chain, or after the `else of its chain
misplaced(stack) == stack = <<>> \/ top(stack).hasElse

\* `elsif Y: requires !hasElse; currentActive := !anyTaken && defined(Y); updates anyTaken
handleElsIfDirective(name) ==
    IF misplaced(branchStack)
    THEN /\ Len(ppDiags) < MaxPPDiags
         /\ ppError("UnexpectedConditionalDirective")
         /\ ppLast' = handled("elsif", "", "error")
         /\ UNCHANGED <<macros, branchStack, branchLog>>
    ELSE LET branch == top(branchStack)
             taken == ~branch.anyTaken /\ isDefined(macros, name)
         IN /\ branchStack' = setTop(branchStack,
                   [branch EXCEPT !.currentActive = taken, !.anyTaken = @ \/ taken])
            /\ branchLog' = setTop(branchLog, bump(top(branchLog), taken))
            /\ ppLast' = handled("elsif", "", "ok")
            /\ UNCHANGED <<macros, ppDiags>>

\* `else: currentActive := !anyTaken; hasElse := true
handleElseDirective ==
    IF misplaced(branchStack)
    THEN /\ Len(ppDiags) < MaxPPDiags
         /\ ppError("UnexpectedConditionalDirective")
         /\ ppLast' = handled("else", "", "error")
         /\ UNCHANGED <<macros, branchStack, branchLog>>
    ELSE LET branch == top(branchStack)
             taken == ~branch.anyTaken
         IN /\ branchStack' = setTop(branchStack,
                   [branch EXCEPT !.currentActive = taken, !.hasElse = TRUE])
            /\ branchLog' = setTop(branchLog, bump(top(branchLog), taken))
            /\ ppLast' = handled("else", "", "ok")
            /\ UNCHANGED <<macros, ppDiags>>

\* `endif pops
handleEndIfDirective ==
    IF branchStack = <<>>
    THEN /\ Len(ppDiags) < MaxPPDiags
         /\ ppError("UnexpectedConditionalDirective")
         /\ ppLast' = handled("endif", "", "error")
         /\ UNCHANGED <<macros, branchStack, branchLog>>
    ELSE /\ branchStack' = pop(branchStack)
         /\ branchLog' = pop(branchLog)
         /\ ppLast' = handled("endif", "", "ok")
         /\ UNCHANGED <<macros, ppDiags>>

\* a raw token of the source: passed on, or dropped as DisabledText trivia
nextToken ==
    /\ ppLast' = handled("token", "", IF allActive(branchStack) THEN "passed" ELSE "disabled")
    /\ UNCHANGED <<macros, branchStack, branchLog, ppDiags>>

\* a `define stores the parsed directive under its name; the intrinsic
\* macros keep their registration
defineMacro(table, name) ==
    IF isDefined(table, name) /\ isIntrinsic(table[name]) THEN table
    ELSE [n \in DOMAIN table \cup {name} |-> IF n = name THEN syntaxDef ELSE table[n]]

\* a non-conditional directive takes effect only outside disabled text
\* (PreprocessorTests.cpp "Nested branches": `define BAZ in a branch not taken)
handleDefineDirective(name) ==
    /\ IF allActive(branchStack)
       THEN /\ macros' = defineMacro(macros, name)
            /\ ppLast' = handled("define", "", "ok")
       ELSE /\ UNCHANGED macros
            /\ ppLast' = handled("define", "", "disabled")
    /\ UNCHANGED <<branchStack, branchLog, ppDiags>>

\* Preprocessor::undefine: false for an intrinsic name or a name not defined
undefineResult_anyDefined(table, name) == isDefined(table, name)

undefineResult(table, name) == isDefined(table, name) /\ ~isIntrinsic(table[name])

without(table, name) == [n \in DOMAIN table \ {name} |-> table[n]]

handleUndefDirective(name) ==
    /\ IF allActive(branchStack)
       THEN /\ macros' = IF undefineResult(macros, name) THEN without(macros, name) ELSE macros
            /\ ppLast' = handled("undef", "", "ok")
       ELSE /\ UNCHANGED macros
            /\ ppLast' = handled("undef", "", "disabled")
    /\ UNCHANGED <<branchStack, branchLog, ppDiags>>

\* Preprocessor::undefineAll: the intrinsic macros cannot be undefined
undefineAllResult(table) == intrinsicMacros

handleUndefineAllDirective ==
    /\ IF allActive(branchStack)
       THEN /\ macros' = undefineAllResult(macros)
            /\ ppLast' = handled("undefineall", "", "ok")
       ELSE /\ UNCHANGED macros
            /\ ppLast' = handled("undefineall", "", "disabled")
    /\ UNCHANGED <<branchStack, branchLog, ppDiags>>

\* the public interface: predefine, undefine, undefineAll, isDefined
predefine(name) ==
    /\ macros' = defineMacro(macros, name)
    /\ ppLast' = handled("predefine()", name, "ok")
    /\ UNCHANGED <<branchStack, branchLog, ppDiags>>

undefine(name) ==
    /\ macros' = IF undefineResult(macros, name) THEN without(macros, name) ELSE macros
    /\ ppLast' = handled("undefine()", name, IF undefineResult(macros, name) THEN "true" ELSE "false")
    /\ UNCHANGED <<branchStack, branchLog, ppDiags>>

undefineAll ==
    /\ macros' = undefineAllResult(macros)
    /\ ppLast' = handled("undefineAll()", "", "ok")
    /\ UNCHANGED <<branchStack, branchLog, ppDiags>>

InitPreprocessor ==
    /\ macros = intrinsicMacros
    /\ branchStack = <<>>
    /\ branchLog = <<>>
    /\ ppDiags = <<>>
    /\ ppLast = handled("Preprocessor", "", "ok")

(***************************************************************************)
(* Macro expansion: a usage of a macro is replaced by the macro's body,    *)
(* and the usages inside the body are expanded in place, one nested        *)
(* expansion per usage, under a depth guard.                               *)
(***************************************************************************)
MacroIds == 1..MaxMacros

\* a body item is a plain token or the usage of a macro (`name)
Tok == [kind |-> "Identifier", macro |-> 0]
Usage(m) == [kind |-> "MacroUsage", macro |-> m]

\* the body token lists a `define can have here
Bodies ==
    {<<Tok>>}
    \cup {<<Usage(m)>> : m \in MacroIds}
    \cup {<<Tok, Usage(m)>> : m \in MacroIds}
    \cup {<<Usage(m), Usage(m)>> : m \in MacroIds}

\* the depth guard of macro expansion; it admits every chain of distinct macros
MaxMacroDepth == MaxMacros + 1

depthExceeded_never(stack) == FALSE

depthExceeded(stack) == Len(stack) >= MaxMacroDepth

frame(m) == [macro |-> m, pos |-> 1]

\* the body item the innermost expansion is at, if its body is not finished
atEnd(stack) == top(stack).pos > Len(macroBodies[top(stack).macro])
current(stack) == macroBodies[top(stack).macro][top(stack).pos]

advance(stack) == setTop(stack, [top(stack) EXCEPT !.pos = @ + 1])

\* a token of the body goes to the destination buffer, marked with the macro it is from
bodyToken(stack) == [kind |-> "Identifier", macro |-> top(stack).macro]

\* a usage at the top level of the source starts an expansion
handleTopLevelMacro(m) ==
    /\ expPhase = "idle"
    /\ usageSite' = m
    /\ expStack' = <<frame(m)>>
    /\ expPhase' = "expanding"
    /\ expSteps' = expSteps + 1
    /\ UNCHANGED <<macroBodies, expandedTokens, expDiags>>

appendBodyToken ==
    /\ expPhase = "expanding"
    /\ ~atEnd(expStack)
    /\ current(expStack).kind = "Identifier"
    /\ expandedTokens' = Append(expandedTokens, bodyToken(expStack))
    /\ expStack' = advance(expStack)
    /\ expSteps' = expSteps + 1
    /\ UNCHANGED <<macroBodies, usageSite, expDiags, expPhase>>

\* a usage inside a body: expanded in place, unless the guard stops it
expandMacro ==
    /\ expPhase = "expanding"
    /\ ~atEnd(expStack)
    /\ current(expStack).kind = "MacroUsage"
    /\ expSteps' = expSteps + 1
    /\ IF depthExceeded(expStack)
       THEN /\ expDiags' = Append(expDiags, "RecursiveMacro")
            /\ expStack' = <<>>
            /\ expPhase' = "failed"
            /\ UNCHANGED <<macroBodies, usageSite, expandedTokens>>
       ELSE /\ expStack' = Append(advance(expStack), frame(current(expStack).macro))
            /\ UNCHANGED <<macroBodies, usageSite, expandedTokens, expDiags, expPhase>>

\* the end of a body: back to the enclosing expansion, or the expansion is done
expandReplacementList ==
    /\ expPhase = "expanding"
    /\ atEnd(expStack)
    /\ expStack' = pop(expStack)
    /\ expPhase' = IF Len(expStack) = 1 THEN "done" ELSE "expanding"
    /\ expSteps' = expSteps + 1
    /\ UNCHANGED <<macroBodies, usageSite, expandedTokens, expDiags>>

InitExpansion ==
    /\ macroBodies \in [MacroIds -> Bodies]
    /\ usageSite = 0
    /\ expStack = <<>>
    /\ expandedTokens = <<>>
    /\ expDiags = <<>>
    /\ expSteps = 0
    /\ expPhase = "idle"

InitExpansionIdle ==
    /\ macroBodies = [m \in MacroIds |-> <<Tok>>]
    /\ usageSite = 0
    /\ expStack = <<>>
    /\ expandedTokens = <<>>
    /\ expDiags = <<>>
    /\ expSteps = 0
    /\ expPhase = "idle"

(***************************************************************************)
(* The lexer (Lexer.cpp): lex() skips the leading trivia, lexes one token  *)
(* and forces the end of the file once too many diagnostics were issued.   *)
(***************************************************************************)
\* the characters of a buffer: a letter, a non-printable character, a
\* blank, a slash, a backslash, a newline and '\0' (the terminator, or an
\* embedded null); a double quote occurs in the texts the lexer builds itself
Letter == "a"
NonPrintable == "x01"
Space == " "
Slash == "/"
Newline == "nl"
Nul == "nul"
Backslash == "\\"
Quote == "quote"
Chars == {Letter, NonPrintable, Space, Slash, Backslash, Newline, Nul}

\* the character classes of CharInfo.h
isNewline(c) == c = Newline
isWhitespace(c) == c \in {Space, Newline}
isPrintable(c) == c \in {Letter, Slash, Backslash, Quote}

RECURSIVE Texts(_)
Texts(n) == IF n = 0 THEN {<<>>}
            ELSE Texts(n - 1) \cup {Append(t, c) : t \in {u \in Texts(n - 1) : Len(u) = n - 1}, c \in Chars}

\* the texts of a directive: letters, blanks, backslashes and newlines
DirectiveChars == {Letter, Space, Backslash, Newline}
DirectiveBuffers == {Append(t, Nul) : t \in UNION {[1..n -> DirectiveChars] : n \in 0..MaxDirective}}

\* ASSERT(sourceEnd[-1] == '\0')
Buffers == {Append(t, Nul) : t \in Texts(MaxSource)}

LexerModes == {"Normal", "Directive", "IncludeFileName"}

\* sourceEnd - 1 as a position
lastChar(text) == Len(text)

reallyAtEnd(text, pos) == pos >= lastChar(text)

peek(text, pos) == IF pos <= Len(text) THEN text[pos] ELSE Nul

\* Lexer::lexeme: the text from the marker up to the current position
lexeme(text, marker, pos) == SubSeq(text, marker, pos - 1)

\* Lexer::addError
addError(list, code) == Append(list, code)

\* Lexer::scanWhitespace: the position after the blanks
RECURSIVE scanWhitespace(_, _)
scanWhitespace(text, pos) ==
    IF peek(text, pos) = Space THEN scanWhitespace(text, pos + 1) ELSE pos

\* Lexer::scanLineComment: up to the newline or the end, and in a
\* directive up to a backslash before a newline; an embedded null is an
\* error and is skipped
RECURSIVE scanLineComment(_, _, _, _)
scanLineComment(text, pos, directiveMode, list) ==
    CASE isNewline(peek(text, pos)) -> [pos |-> pos, diags |-> list]
      [] peek(text, pos) = Backslash /\ directiveMode /\ isNewline(peek(text, pos + 1)) ->
             [pos |-> pos, diags |-> list]
      [] peek(text, pos) = Nul ->
             IF reallyAtEnd(text, pos) THEN [pos |-> pos, diags |-> list]
             ELSE scanLineComment(text, pos + 1, directiveMode, addError(list, "EmbeddedNull"))
      [] OTHER -> scanLineComment(text, pos + 1, directiveMode, list)

\* Lexer::lexTrivia: the position after the trivia, whether an
\* EndOfDirective has to be returned right away, the text of the trivia
\* and the diagnostics
RECURSIVE lexTriviaLoop(_, _, _, _, _)
lexTriviaLoop(text, pos, directiveMode, list, triviaBuffer) ==
    LET return(eod) == [pos |-> pos, eod |-> eod, trivia |-> triviaBuffer, diags |-> list] IN
    CASE peek(text, pos) = Space ->
             LET p == scanWhitespace(text, pos + 1) IN
             lexTriviaLoop(text, p, directiveMode, list, triviaBuffer \o lexeme(text, pos, p))
      [] peek(text, pos) = Slash ->
             IF peek(text, pos + 1) = Slash
             THEN LET c == scanLineComment(text, pos + 2, directiveMode, list) IN
                  lexTriviaLoop(text, c.pos, directiveMode, c.diags,
                                triviaBuffer \o lexeme(text, pos, c.pos))
             ELSE return(FALSE)
      [] peek(text, pos) = Newline ->
             IF directiveMode
             THEN [pos |-> pos + 1, eod |-> TRUE,
                   trivia |-> triviaBuffer \o lexeme(text, pos, pos + 1), diags |-> list]
             ELSE lexTriviaLoop(text, pos + 1, directiveMode, list,
                                triviaBuffer \o lexeme(text, pos, pos + 1))
      [] peek(text, pos) = Backslash ->
             IF ~directiveMode \/ ~isNewline(peek(text, pos + 1))
             THEN return(FALSE)
             ELSE lexTriviaLoop(text, pos + 2, directiveMode, list,
                                triviaBuffer \o lexeme(text, pos, pos + 2))
      [] peek(text, pos) = Nul -> return(directiveMode)
      [] OTHER -> return(FALSE)

lexTrivia_dropped(text, pos, directiveMode, list) ==
    [lexTriviaLoop(text, pos, directiveMode, list, <<>>) EXCEPT !.trivia = <<>>]

lexTrivia(text, pos, directiveMode, list) == lexTriviaLoop(text, pos, directiveMode, list, <<>>)

\* Lexer::scanIdentifier
RECURSIVE scanIdentifier(_, _)
scanIdentifier(text, pos) ==
    IF peek(text, pos) = Letter THEN scanIdentifier(text, pos + 1) ELSE pos

\* Lexer::lexStringLiteral, from the position after the opening quote; of
\* the escapes, \a, \\, \" and an escaped newline are known here
RECURSIVE lexStringLiteral(_, _, _)
lexStringLiteral(text, pos, list) ==
    LET c == peek(text, pos)
        escaped == peek(text, pos + 1)
    IN CASE c = Backslash ->
                lexStringLiteral(text, pos + 2,
                    IF escaped \in {Letter, Backslash, Quote, Newline} THEN list
                    ELSE addError(list, "UnknownEscapeCode"))
         [] c = Quote -> [kind |-> "StringLiteral", pos |-> pos + 1, diags |-> list]
         [] isNewline(c) ->
                [kind |-> "StringLiteral", pos |-> pos, diags |-> addError(list, "ExpectedClosingQuote")]
         [] c = Nul ->
                IF reallyAtEnd(text, pos)
                THEN [kind |-> "StringLiteral", pos |-> pos,
                      diags |-> addError(list, "ExpectedClosingQuote")]
                ELSE lexStringLiteral(text, pos + 1, addError(list, "EmbeddedNull"))
         [] OTHER -> lexStringLiteral(text, pos + 1, list)

\* Lexer::lexEscapeSequence, from the position after the backslash
RECURSIVE scanEscaped(_, _)
scanEscaped(text, pos) ==
    IF ~isPrintable(peek(text, pos)) THEN pos
    ELSE IF isWhitespace(peek(text, pos + 1)) THEN pos + 1
    ELSE scanEscaped(text, pos + 1)

lexEscapeSequence(text, pos, list) ==
    IF isWhitespace(peek(text, pos)) \/ peek(text, pos) = Nul
    THEN [kind |-> "Unknown", pos |-> pos, diags |-> addError(list, "EscapedWhitespace")]
    ELSE [kind |-> "Identifier", pos |-> scanEscaped(text, pos), diags |-> list]

\* Lexer::lexToken: the token kind, the position after it, the diagnostics
lexToken(text, pos, directiveMode, list) ==
    LET c == peek(text, pos) IN
    CASE c = Nul ->
             IF ~reallyAtEnd(text, pos)
             THEN [kind |-> "Unknown", pos |-> pos + 1, diags |-> addError(list, "EmbeddedNull")]
             ELSE IF directiveMode
                  THEN [kind |-> "EndOfDirective", pos |-> pos, diags |-> list]
                  ELSE [kind |-> "EndOfFile", pos |-> pos, diags |-> list]
      [] c = Letter ->
             [kind |-> "Identifier", pos |-> scanIdentifier(text, pos + 1), diags |-> list]
      [] c = Slash ->
             [kind |-> "Slash", pos |-> pos + 1, diags |-> list]
      [] c = Quote -> lexStringLiteral(text, pos + 1, list)
      [] c = Backslash -> lexEscapeSequence(text, pos + 1, list)
      [] OTHER ->
             [kind |-> "Unknown", pos |-> pos + 1, diags |-> addError(list, "NonPrintableChar")]

\* Lexer::lexIncludeFileName, on a buffer without quotes or backticks:
\* leading blanks are trivia, then the file name is missing
lexIncludeFileName(text, pos, list) ==
    LET p == IF peek(text, pos) = Space THEN scanWhitespace(text, pos) ELSE pos IN
    [kind |-> "IncludeFileName", pos |-> p, trivia |-> lexeme(text, pos, p),
     diags |-> addError(list, "ExpectedIncludeFileName")]

\* where lexing goes on after too many errors: sourceBuffer = sourceEnd - 1
stopLexing_goOn(text, pos) == pos

stopLexing(text, pos) == lastChar(text)

\* what a call of lex returns: the mode, the token kind, the kind lexToken
\* gave ("none" if it did not run) and diagnostics.size() after it
result(mode, kind, token, size) == [mode |-> mode, kind |-> kind, token |-> token, size |-> size]

\* the diagnostics are shared with the caller, which stops at a limit of its own
diagnosticsLimit == MaxSource + 2

\* Lexer::lex; written holds the leading trivia and the raw text of every
\* token returned so far
lex(mode) ==
    /\ UNCHANGED <<source, maxErrors>>
    /\ IF mode = "IncludeFileName"
       THEN LET t == lexIncludeFileName(source, sourceBuffer, diagnostics) IN
            /\ Len(diagnostics) < diagnosticsLimit
            /\ sourceBuffer' = t.pos
            /\ diagnostics' = t.diags
            /\ lexed' = result(mode, t.kind, "none", Len(t.diags))
            /\ written' = written \o t.trivia
       ELSE LET directiveMode == mode = "Directive"
                trivia == lexTrivia(source, sourceBuffer, directiveMode, diagnostics)
                marker == trivia.pos
                t == lexToken(source, trivia.pos, directiveMode, trivia.diags)
                rawText == lexeme(source, marker, t.pos)
            IN IF trivia.eod
               THEN /\ sourceBuffer' = trivia.pos
                    /\ diagnostics' = trivia.diags
                    /\ lexed' = result(mode, "EndOfDirective", "none", Len(trivia.diags))
                    /\ written' = written \o trivia.trivia
               ELSE IF t.kind # "EndOfFile" /\ Len(t.diags) > maxErrors
                    THEN /\ diagnostics' = addError(t.diags, "TooManyLexerErrors")
                         /\ sourceBuffer' = stopLexing(source, t.pos)
                         /\ lexed' = result(mode, "EndOfFile", t.kind, Len(t.diags))
                         /\ written' = written \o trivia.trivia
                                          \o lexeme(source, marker, stopLexing(source, t.pos))
                                          \o rawText
                    ELSE /\ diagnostics' = t.diags
                         /\ sourceBuffer' = t.pos
                         /\ lexed' = result(mode, t.kind, t.kind, Len(t.diags))
                         /\ written' = written \o trivia.trivia \o rawText

InitLexer ==
    /\ source \in Buffers
    /\ sourceBuffer = 1
    /\ maxErrors \in 0..MaxErrorLimit
    /\ diagnostics = <<>>
    /\ lexed = result("Normal", "none", "none", 0)
    /\ written = <<>>

InitLexerIdle ==
    /\ source = <<Nul>>
    /\ sourceBuffer = 1
    /\ maxErrors = 0
    /\ diagnostics = <<>>
    /\ lexed = result("Normal", "none", "none", 0)
    /\ written = <<>>

(***************************************************************************)
(* The integral types of the compilation: the scalar types tabulated by    *)
(* their flags and the packed arrays made by getType(width, flags)         *)
(* (Compilation.cpp).                                                      *)
(***************************************************************************)
\* IntegralFlags, as the bits that index scalarTypeTable
Signed == 1
FourState == 2
Reg == 4

\* bitwise operations on unsigned values
RECURSIVE bitOr(_, _)
bitOr(a, b) ==
    IF a = 0 THEN b
    ELSE IF b = 0 THEN a
    ELSE (IF a % 2 = 1 \/ b % 2 = 1 THEN 1 ELSE 0) + 2 * bitOr(a \div 2, b \div 2)

RECURSIVE bitAnd(_, _)
bitAnd(a, b) ==
    IF a = 0 \/ b = 0 THEN 0
    ELSE (IF a % 2 = 1 /\ b % 2 = 1 THEN 1 ELSE 0) + 2 * bitAnd(a \div 2, b \div 2)

hasFlag(flags, f) == bitAnd(flags, f) # 0

\* the scalar types registered at construction: bit, logic, reg and their
\* signed forms; a reg is four-state
ScalarFlags == {0, FourState, bitOr(FourState, Reg),
                Signed, bitOr(Signed, FourState), bitOr(Signed, bitOr(FourState, Reg))}

\* SVInt::BITWIDTH_BITS: the bits of a key that hold the width
BITWIDTH_BITS == 24

\* the widths getType is called with: small ones, and one that does not
\* fit into BITWIDTH_BITS bits (bitwidth_t is a uint32_t)
Widths == {1, 8, 16, 2^BITWIDTH_BITS + 8}

\* ScalarType: one of the six registered scalars
scalarType(flags) == [kind |-> "Scalar", flags |-> flags, width |-> 1, left |-> 0, right |-> 0]

\* Compilation::getScalarType: scalarTypeTable[flags.bits() & 0x7]
getScalarType(flags) == scalarType(bitAnd(flags, 7))

\* PackedArrayType(elementType, range): its flags are those of the element
packedArrayType(element, left, right) ==
    [kind |-> "PackedArray", flags |-> element.flags, width |-> left - right + 1,
     left |-> left, right |-> right]

\* the key of the cache: key = width; key |= flags.bits() << BITWIDTH_BITS
cacheKey(width, flags) == bitOr(width, flags * 2^BITWIDTH_BITS)

returned(width, flags, ptr, type) ==
    [width |-> width, flags |-> flags, ptr |-> ptr, type |-> type]

\* Compilation::getType(bitwidth_t width, bitmask<IntegralFlags> flags);
\* an object is known by the order number of its emplace
getType(width, flags) ==
    LET key == cacheKey(width, flags) IN
    IF key \in DOMAIN vectorTypeCache
    THEN /\ typeCall' = returned(width, flags, vectorTypeCache[key].ptr, vectorTypeCache[key].type)
         /\ UNCHANGED <<vectorTypeCache, typesAllocated>>
    ELSE LET type == packedArrayType(getScalarType(flags), width - 1, 0)
             ptr == typesAllocated + 1
         IN /\ typesAllocated < MaxTypes
            /\ typesAllocated' = ptr
            /\ vectorTypeCache' = [k \in DOMAIN vectorTypeCache \cup {key} |->
                                      IF k = key THEN [ptr |-> ptr, type |-> type]
                                      ELSE vectorTypeCache[k]]
            /\ typeCall' = returned(width, flags, ptr, type)

InitTypes ==
    /\ vectorTypeCache = <<>>
    /\ typesAllocated = 0
    /\ typeCall = returned(0, 0, 0, scalarType(0))

(***************************************************************************)
(* Token concatenation (Lexer::concatenateTokens), used by macro pasting.   *)
(***************************************************************************)
\* LexerOptions{}: the limit of a lexer made with default options.  It is
\* not below the one diagnostic that a token of the texts joined here
\* raises: with default options such a token keeps its kind.
DefaultMaxErrors == 1

\* Lexer::lex in the normal mode, from the position pos of the text: the
\* token, its leading trivia, the position after it and the diagnostics
lexFrom(text, pos, list, limit) ==
    LET trivia == lexTrivia(text, pos, FALSE, list)
        marker == trivia.pos
        t == lexToken(text, trivia.pos, FALSE, trivia.diags)
        rawText == lexeme(text, marker, t.pos)
    IN IF t.kind # "EndOfFile" /\ Len(t.diags) > limit
       THEN [kind |-> "EndOfFile", rawText |-> rawText,
             trivia |-> trivia.trivia \o lexeme(text, marker, stopLexing(text, t.pos)),
             pos |-> stopLexing(text, t.pos),
             diags |-> addError(t.diags, "TooManyLexerErrors")]
       ELSE [kind |-> t.kind, rawText |-> rawText, trivia |-> trivia.trivia,
             pos |-> t.pos, diags |-> t.diags]

\* a token: kind, raw text, leading trivia and location; Token() is the
\* empty token, which is not valid
Token(kind, rawText, trivia, location) ==
    [kind |-> kind, rawText |-> rawText, trivia |-> trivia, location |-> location, valid |-> TRUE]
emptyToken == [kind |-> "Unknown", rawText |-> <<>>, trivia |-> <<>>, location |-> 0, valid |-> FALSE]

\* Lexer::concatenateTokens(alloc, left, right)
concatenateTokens_noEndCheck(left, right) ==
    LET combined == left.rawText \o right.rawText \o <<Nul>>
        token == lexFrom(combined, 1, <<>>, DefaultMaxErrors)
    IN IF left.rawText = <<>> \/ right.rawText = <<>> THEN emptyToken
       ELSE IF token.kind = "Unknown" \/ token.rawText = <<>> THEN emptyToken
       ELSE Token(token.kind, token.rawText, left.trivia, left.location)
concatenateTokens(left, right) ==
    LET combined == left.rawText \o right.rawText \o <<Nul>>
        token == lexFrom(combined, 1, <<>>, DefaultMaxErrors)
        next == lexFrom(combined, token.pos, token.diags, DefaultMaxErrors)
    IN IF left.rawText = <<>> \/ right.rawText = <<>> THEN emptyToken
       ELSE IF token.kind = "Unknown" \/ token.rawText = <<>> THEN emptyToken
       ELSE IF next.kind # "EndOfFile" THEN emptyToken
       ELSE Token(token.kind, token.rawText, left.trivia, left.location)

\* the tokens of a text, up to and with the end of file
RECURSIVE lexAll(_, _)
lexAll(text, pos) ==
    LET trivia == lexTrivia(text, pos, FALSE, <<>>)
        t == lexToken(text, trivia.pos, FALSE, <<>>)
        token == [kind |-> t.kind, rawText |-> lexeme(text, trivia.pos, t.pos)]
    IN IF t.kind = "EndOfFile" THEN <<token>> ELSE <<token>> \o lexAll(text, t.pos)

\* the tokens that are concatenated: an identifier of one and of two
\* letters, a slash, an escaped identifier, and the unknown tokens of a
\* non-printable character, an embedded null and a lone backslash, each
\* with and without leading trivia, and tokens without text
TokenTexts ==
    {<<Letter>>, <<Letter, Letter>>, <<Slash>>, <<Backslash, Letter>>,
     <<NonPrintable>>, <<Nul>>, <<Backslash>>}
Tokens(location) ==
    {Token(lexAll(Append(text, Nul), 1)[1].kind, text, trivia, location) :
        text \in TokenTexts, trivia \in {<<>>, <<Space>>}}
    \cup {Token("EndOfFile", <<>>, trivia, location) : trivia \in {<<>>, <<Space>>}}

\* a call of concatenateTokens
pasteTokens ==
    \E left \in Tokens(2), right \in Tokens(1) :
        pasted' = [left |-> left, right |-> right, token |-> concatenateTokens(left, right)]

InitPaste == pasted = [left |-> emptyToken, right |-> emptyToken, token |-> emptyToken]

\* sequences of at most n elements of a set
upTo(set, n) == UNION {[1..k -> set] : k \in 0..n}

(***************************************************************************)
(* Stringification (Lexer::stringify), used by the macro quote.            *)
(***************************************************************************)
\* a piece of trivia
Trivia(kind, rawText) == [kind |-> kind, rawText |-> rawText]

\* the raw texts of the whitespace trivia of a token, from the i-th on
RECURSIVE whitespaceOf(_, _)
whitespaceOf(trivia, i) ==
    IF i > Len(trivia) THEN <<>>
    ELSE (IF trivia[i].kind = "Whitespace" THEN trivia[i].rawText ELSE <<>>)
            \o whitespaceOf(trivia, i + 1)

\* the loop of Lexer::stringify over the tokens from the i-th on
RECURSIVE stringifyLoop(_, _, _, _)
stringifyLoop(tokens, i, noWhitespace, text) ==
    IF i > Len(tokens) THEN text
    ELSE stringifyLoop(tokens, i + 1, noWhitespace,
             text \o (IF noWhitespace THEN <<>> ELSE whitespaceOf(tokens[i].trivia, 1))
                  \o (IF tokens[i].kind = "MacroEscapedQuote" THEN <<Backslash, Quote>>
                      ELSE IF tokens[i].kind # "EmptyMacroArgument" THEN tokens[i].rawText
                      ELSE <<>>))

\* a failed ASSERT of Lexer::stringify
assertionFailed(condition, raw) ==
    [kind |-> "AssertionFailed", condition |-> condition, rawText |-> raw]

\* the end of Lexer::stringify: the text is lexed again
stringifyLexed(location, trivia, raw, token, next) ==
    IF token.kind # "StringLiteral"
    THEN assertionFailed("token.kind == TokenKind::StringLiteral", raw)
    ELSE IF next.kind # "EndOfFile"
    THEN assertionFailed("lexer.lex().kind == TokenKind::EndOfFile", raw)
    ELSE Token(token.kind, SubSeq(raw, 1, Len(raw) - 1), trivia, location)

stringifyNext(location, trivia, raw, token) ==
    stringifyLexed(location, trivia, raw, token,
                   lexFrom(raw, token.pos, token.diags, DefaultMaxErrors))

stringifyRaw(location, trivia, raw) ==
    stringifyNext(location, trivia, raw, lexFrom(raw, 1, <<>>, DefaultMaxErrors))

\* Lexer::stringify(alloc, location, trivia, begin, end, noWhitespace)
stringify(location, trivia, tokens, noWhitespace) ==
    stringifyRaw(location, trivia,
                 stringifyLoop(tokens, 1, noWhitespace, <<Quote>>) \o <<Quote, Nul>>)

\* the tokens that are stringified: identifiers, one after a blank and a
\* newline, a slash, a string literal, an escaped quote of a macro, an empty
\* macro argument and a lone backslash
Backtick == "backtick"
StringifiedTokens ==
    {Token("Identifier", <<Letter>>, <<>>, 1),
     Token("Identifier", <<Letter>>,
           <<Trivia("Whitespace", <<Space>>), Trivia("EndOfLine", <<Newline>>)>>, 1),
     Token("Slash", <<Slash>>, <<>>, 1),
     Token("StringLiteral", <<Quote, Letter, Quote>>, <<>>, 1),
     Token("MacroEscapedQuote", <<Backtick, Backslash, Backtick, Quote>>, <<>>, 1),
     Token("EmptyMacroArgument", <<>>, <<Trivia("Whitespace", <<Space>>)>>, 1),
     Token("Unknown", <<Backslash>>, <<>>, 1)}

\* a call of stringify
stringifyTokens ==
    \E tokens \in upTo(StringifiedTokens, MaxStringified), noWhitespace \in BOOLEAN,
       trivia \in {<<>>, <<Trivia("Whitespace", <<Space>>)>>} :
        stringified' = [tokens |-> tokens, noWhitespace |-> noWhitespace, trivia |-> trivia,
                        token |-> stringify(2, trivia, tokens, noWhitespace)]

InitStringify ==
    stringified = [tokens |-> <<>>, noWhitespace |-> FALSE, trivia |-> <<>>, token |-> emptyToken]

(***************************************************************************)
(* Integer literals: Lexer::lexNumericLiteral decodes the digits and       *)
(* Parser::parseIntegerExpression checks the value of the token.  A        *)
(* literal is the sequence of its characters, the digits "0".."9" and "_". *)
(* A uint64_t is the sequence of its four 16-bit limbs, the least          *)
(* significant first.                                                      *)
(***************************************************************************)
Limb == 65536
MaxMantissaDigits == 18
INT32_MAX == 2147483647
MAX_BITS == 2 ^ BITWIDTH_BITS - 1

isDecimalDigit(c) == c \in {ToString(d) : d \in 0..9}

getDigitValue(c) == CHOOSE d \in 0..9 : ToString(d) = c

\* value * factor + carry in uint64_t
RECURSIVE mulAddFrom(_, _, _, _)
mulAddFrom(value, i, factor, carry) ==
    IF i > Len(value) THEN <<>>
    ELSE LET t == value[i] * factor + carry
         IN <<t % Limb>> \o mulAddFrom(value, i + 1, factor, t \div Limb)

\* Lexer::scanUnsignedNumber from pos on; text[pos] past the end is the '\0'
RECURSIVE scanUnsignedNumber(_, _, _, _)
scanUnsignedNumber(text, pos, value, digits) ==
    IF pos > Len(text) THEN [pos |-> pos, value |-> value, digits |-> digits]
    ELSE IF text[pos] = "_" THEN scanUnsignedNumber(text, pos + 1, value, digits)
    ELSE IF ~isDecimalDigit(text[pos]) THEN [pos |-> pos, value |-> value, digits |-> digits]
    ELSE scanUnsignedNumber(text, pos + 1,
                            IF digits < MaxMantissaDigits
                            THEN mulAddFrom(value, 1, 10, getDigitValue(text[pos])) ELSE value,
                            digits + 1)

\* lines 722-724: scan past leading zeros
RECURSIVE skipZeros(_, _)
skipZeros(text, pos) ==
    IF pos <= Len(text) /\ text[pos] = "0" THEN skipZeros(text, pos + 1) ELSE pos

\* SVInt(32, value, true): the low 32 bits of the value as a signed number
SVInt32(value) ==
    IF value[2] >= Limb \div 2 THEN (value[2] - Limb) * Limb + value[1]
    ELSE value[2] * Limb + value[1]

\* Lexer::lexNumericLiteral of a run of digits: the value of the IntegerLiteral
lexNumericLiteral(text) ==
    SVInt32(scanUnsignedNumber(text, skipZeros(text, 1), <<0, 0, 0, 0>>, 0).value)

\* line 267: tokenValue > INT32_MAX
overflows(text, tokenValue) == tokenValue > INT32_MAX

\* Parser::parseIntegerExpression up to the vector digits, for an
\* IntegerLiteral token followed or not by an IntegerBase token
parseIntegerExpression(text, sized, location) ==
    LET tokenValue == lexNumericLiteral(text) IN
    IF ~sized
    THEN [kind |-> "IntegerLiteralExpression", text |-> text, sized |-> sized,
          value |-> tokenValue, sizeBits |-> 0,
          diags |-> IF overflows(text, tokenValue)
                    THEN <<[code |-> "SignedIntegerOverflow", location |-> location]>>
                    ELSE <<>>]
    ELSE [kind |-> "IntegerVectorExpression", text |-> text, sized |-> sized,
          value |-> tokenValue,
          sizeBits |-> IF tokenValue = 0 THEN 0
                       ELSE IF tokenValue > MAX_BITS THEN MAX_BITS ELSE tokenValue,
          diags |-> IF tokenValue = 0
                    THEN <<[code |-> "LiteralSizeIsZero", location |-> location]>>
                    ELSE IF tokenValue > MAX_BITS
                    THEN <<[code |-> "LiteralSizeTooLarge", location |-> location]>>
                    ELSE <<>>]

\* the literals parsed: small ones, with leading zeros and underscores, the
\* values around 2^31 and 2^32, and one of more than MaxMantissaDigits digits
Literals ==
    {<<"0">>, <<"1">>, <<"0", "0", "7">>, <<"1", "_", "0">>, <<"0", "_", "0">>,
     <<"2", "1", "4", "7", "4", "8", "3", "6", "4", "7">>,
     <<"2", "1", "4", "7", "4", "8", "3", "6", "4", "8">>,
     <<"4", "2", "9", "4", "9", "6", "7", "2", "9", "5">>,
     <<"4", "2", "9", "4", "9", "6", "7", "2", "9", "6">>,
     <<"4", "2", "9", "4", "_", "9", "6", "7", "_", "2", "9", "7">>,
     <<"1", "0", "0", "0", "0", "0", "0", "0", "0", "0",
       "0", "0", "0", "0", "0", "0", "0", "0", "0">>}

\* a call of parseIntegerExpression
parseInteger ==
    \E text \in Literals, sized \in BOOLEAN :
        LET expr == parseIntegerExpression(text, sized, Len(parsed.expressions) + 1)
        IN /\ Len(parsed.expressions) < MaxLiterals
           /\ parsed' = [expressions |-> Append(parsed.expressions, expr),
                         diags |-> parsed.diags \o expr.diags]

InitParser == parsed = [expressions |-> <<>>, diags |-> <<>>]

(***************************************************************************)
(* The expression binder (source/binding/Expressions.cpp).                 *)
(*                                                                         *)
(* A type is the record of its kind, integral flags and bit width; an      *)
(* expression is the record of its kind, its type and, for a constant, its *)
(* value.  The operands of an expression are bound before the expression   *)
(* itself, so a binder step takes its operands as bound expressions and    *)
(* yields the expression, the diagnostics it adds itself and the types it  *)
(* leaves in the cache of the compilation.                                 *)
(***************************************************************************)

\* the types the compilation owns besides the scalars
errorType == [kind |-> "Error", flags |-> 0, width |-> 0, left |-> 0, right |-> 0]
voidType == [kind |-> "Void", flags |-> 0, width |-> 0, left |-> 0, right |-> 0]
byteType == [kind |-> "PredefinedInteger", flags |-> Signed, width |-> 8, left |-> 7, right |-> 0]
realType == [kind |-> "Floating", flags |-> 0, width |-> 64, left |-> 0, right |-> 0]
shortRealType == [kind |-> "Floating", flags |-> 0, width |-> 32, left |-> 0, right |-> 0]
bitType == scalarType(0)
logicType == scalarType(FourState)
signedBitType == scalarType(Signed)

\* the predicates of a type
isError(type) == type.kind = "Error"
isVoid(type) == type.kind = "Void"
isFloating(type) == type.kind = "Floating"
isIntegral(type) == type.kind \in {"Scalar", "PackedArray", "PredefinedInteger"}
isNumeric(type) == isIntegral(type) \/ isFloating(type)
isScalar(type) == type.kind = "Scalar"
isFourState(type) == isIntegral(type) /\ hasFlag(type.flags, FourState)
isSigned(type) == isIntegral(type) /\ hasFlag(type.flags, Signed)
getBitWidth(type) == type.width
getIntegralFlags(type) == type.flags
isMatching(a, b) == a = b
isAssignmentCompatible(lhs, rhs) == isNumeric(lhs) /\ isNumeric(rhs)
isCastCompatible(lhs, rhs) == isAssignmentCompatible(lhs, rhs)

max(a, b) == IF a < b THEN b ELSE a

\* the part of the compilation the binder works on: the cache of vector
\* types and the number of objects created for it
typesOf(cache, allocated) == [cache |-> cache, allocated |-> allocated]
typed(type, types) == [type |-> type, types |-> types]

\* Compilation::getType(width, flags) as a function of the cache it finds:
\* the object it returns and the cache it leaves
getTypeFrom(types, width, flags) ==
    LET key == cacheKey(width, flags) IN
    IF key \in DOMAIN types.cache
    THEN typed(types.cache[key].type, types)
    ELSE LET type == packedArrayType(getScalarType(flags), width - 1, 0)
             ptr == types.allocated + 1
         IN typed(type,
                  typesOf([k \in DOMAIN types.cache \cup {key} |->
                              IF k = key THEN [ptr |-> ptr, type |-> type]
                              ELSE types.cache[k]],
                          ptr))

\* the flags of the result of a binary operator
operatorFlags(lf, rf, force) ==
    bitOr(IF hasFlag(lf, Signed) /\ hasFlag(rf, Signed) THEN Signed ELSE 0,
    bitOr(IF force \/ hasFlag(lf, FourState) \/ hasFlag(rf, FourState) THEN FourState ELSE 0,
          IF hasFlag(lf, Reg) /\ hasFlag(rf, Reg) THEN Reg ELSE 0))

\* binaryOperatorType(compilation, lt, rt, forceFourState)
binaryOperatorType(types, lt, rt, force) ==
    IF ~isNumeric(lt) \/ ~isNumeric(rt) THEN typed(errorType, types)
    ELSE LET computed ==
                 IF isFloating(lt) \/ isFloating(rt)
                 THEN IF \/ (isFloating(lt) /\ getBitWidth(lt) = 64)
                         \/ (isFloating(rt) /\ getBitWidth(rt) = 64)
                      THEN typed(realType, types)
                      ELSE typed(shortRealType, types)
                 ELSE LET width == max(getBitWidth(lt), getBitWidth(rt))
                          flags == operatorFlags(getIntegralFlags(lt), getIntegralFlags(rt), force)
                      IN IF width = 1 /\ (isScalar(lt) \/ isScalar(rt))
                         THEN typed(getScalarType(flags), types)
                         ELSE getTypeFrom(types, width, flags)
         IN IF isMatching(lt, computed.type) THEN typed(lt, computed.types)
            ELSE IF isMatching(rt, computed.type) THEN typed(rt, computed.types)
            ELSE computed

\* forceFourState(compilation, type)
forceFourState(types, type) ==
    IF isFloating(type) \/ isFourState(type) THEN typed(type, types)
    ELSE binaryOperatorType(types, type, type, TRUE)

\* singleBitType(compilation, lt, rt)
singleBitType(lt, rt) == IF isFourState(lt) \/ isFourState(rt) THEN logicType ELSE bitType

\* ExpressionKind
ExpressionKinds ==
    {"Invalid", "IntegerLiteral", "RealLiteral", "StringLiteral", "NamedValue",
     "UnaryOp", "BinaryOp", "ConditionalOp", "Assignment", "Concatenation",
     "Replication", "ElementSelect", "RangeSelect", "MemberAccess", "Call",
     "Conversion", "DataType"}

\* the constant of an expression: none, or an SVInt that may have unknown
\* bits
NoConstant == [isInteger |-> FALSE, hasUnknown |-> FALSE, value |-> 0]
integer(value) == [isInteger |-> TRUE, hasUnknown |-> FALSE, value |-> value]
unknownInteger == [isInteger |-> TRUE, hasUnknown |-> TRUE, value |-> 0]

\* an expression node: kind, operator or conversion kind, type, operands and
\* constant
expression(kind, op, type, operands) ==
    [kind |-> kind, op |-> op, type |-> type, operands |-> operands, constant |-> NoConstant]
leaf(kind, type) == expression(kind, "", type, <<>>)
integerLiteral(value, type) == [leaf("IntegerLiteral", type) EXCEPT !.constant = integer(value)]

\* Expression::bad
bad(expr) == expr.kind = "Invalid" \/ isError(expr.type)

\* Expression::isLValue
isLValue_noMemberAccess(expr) ==
    CASE expr.kind = "NamedValue" -> TRUE
      [] expr.kind = "ElementSelect" -> TRUE
      [] expr.kind = "RangeSelect" -> TRUE
      [] OTHER -> FALSE
isLValue(expr) ==
    CASE expr.kind = "NamedValue" -> TRUE
      [] expr.kind = "ElementSelect" -> TRUE
      [] expr.kind = "RangeSelect" -> TRUE
      [] expr.kind = "MemberAccess" -> TRUE
      [] OTHER -> FALSE

\* Expression::badExpr: an InvalidExpression of the error type over expr
badExpr(children) == expression("Invalid", "", errorType, children)

\* Expression::convert
convert(conversionKind, type, expr) == expression("Conversion", conversionKind, type, <<expr>>)

\* what a binder step yields: the expression, the diagnostics the step adds
\* itself, the types of the compilation, and the diagnostics of the operands
\* the step binds itself
yield(expr, list, types) ==
    [expr |-> expr, diags |-> list, types |-> types, operandDiags |-> <<>>]

\* Expression::checkLValue: the diagnostics it adds
checkLValue(expr) == IF isLValue(expr) THEN <<>> ELSE <<"ExpressionNotAssignable">>

\* contextDetermined(compilation, expr, newType): the type is propagated
\* into an expression that takes its type from the context, any other
\* expression is widened by an implicit conversion
ContextDeterminedKinds == {"IntegerLiteral", "UnaryOp", "BinaryOp", "ConditionalOp"}
contextDetermined(expr, newType) ==
    IF isMatching(expr.type, newType) THEN expr
    ELSE IF expr.kind \in ContextDeterminedKinds THEN [expr EXCEPT !.type = newType]
    ELSE convert(IF isFloating(newType)
                 THEN (IF isFloating(expr.type) THEN "FloatExtension" ELSE "IntToFloat")
                 ELSE "IntExtension", newType, expr)

\* StringLiteral::fromSyntax: the literal has 8 bits for each character,
\* and 8 bits when it is empty (the sizes taken here stay below 2^29, so
\* the product fits the uint32_t of a bitwidth_t)
stringLiteral(types, size) ==
    LET width == IF size = 0 THEN 8 ELSE size * 8
        got == getTypeFrom(types, width, 0)
    IN yield(leaf("StringLiteral", got.type), <<>>, got.types)

\* UnaryExpression::fromSyntax(PrefixUnaryExpressionSyntax)
PrefixOperators == {"UnaryPlus", "UnaryLogicalNot", "UnaryBitwiseNot", "UnaryPreincrement"}
prefixUnary(types, op, operand) ==
    LET type == operand.type
        single == IF isFourState(type) THEN logicType ELSE bitType
        good == IF op = "UnaryBitwiseNot" THEN isIntegral(type) ELSE isNumeric(type)
        resultType == IF op \in {"UnaryLogicalNot", "UnaryBitwiseNot"} THEN single ELSE type
    IN IF bad(operand) THEN yield(badExpr(<<operand>>), <<>>, types)
       ELSE IF op = "UnaryPreincrement" /\ ~isLValue(operand)
            THEN yield(badExpr(<<operand>>), checkLValue(operand), types)
       ELSE IF ~good THEN yield(badExpr(<<operand>>), <<"BadUnaryExpression">>, types)
       ELSE yield(expression("UnaryOp", op, resultType, <<operand>>), <<>>, types)

\* UnaryExpression::fromSyntax(PostfixUnaryExpressionSyntax)
postfixUnary(types, operand) ==
    IF bad(operand) THEN yield(badExpr(<<operand>>), <<>>, types)
    ELSE IF ~isLValue(operand) THEN yield(badExpr(<<operand>>), checkLValue(operand), types)
    ELSE IF ~isNumeric(operand.type) THEN yield(badExpr(<<operand>>), <<"BadUnaryExpression">>, types)
    ELSE yield(expression("UnaryOp", "Postincrement", operand.type, <<operand>>), <<>>, types)

\* BinaryExpression::fromSyntax; the operators stand for the cases of its
\* switch
ArithmeticOperators == {"Add", "Divide", "Mod", "BinaryAnd"}
BinaryOperators ==
    ArithmeticOperators \cup
    {"LogicalShiftLeft", "Power", "LessThan", "LogicalAnd", "Equality", "CaseEquality",
     "WildcardEquality"}
binary(types, op, lhs, rhs) ==
    LET lt == lhs.type
        rt == rhs.type
        bothIntegral == isIntegral(lt) /\ isIntegral(rt)
        bothNumeric == isNumeric(lt) /\ isNumeric(rt)
        good == IF op \in {"Mod", "BinaryAnd", "LogicalShiftLeft"} THEN bothIntegral ELSE bothNumeric
        \* the type the operands are propagated to
        nt == binaryOperatorType(types, lt, rt, FALSE)
        propagated == op \in {"LessThan"} \/ (op \in {"Equality", "CaseEquality", "WildcardEquality"} /\ bothNumeric)
        type ==
            CASE op \in {"Add", "BinaryAnd"} -> binaryOperatorType(types, lt, rt, FALSE)
              [] op \in {"Divide", "Mod"} -> binaryOperatorType(types, lt, rt, TRUE)
              [] op = "LogicalShiftLeft" -> IF isFourState(rt) THEN forceFourState(types, lt)
                                            ELSE typed(lt, types)
              [] op = "Power" -> forceFourState(types, lt)
              [] op \in {"LessThan", "LogicalAnd", "Equality"} -> typed(singleBitType(lt, rt), types)
              [] op = "CaseEquality" -> typed(bitType, types)
              [] op = "WildcardEquality" -> typed(IF isFourState(lt) THEN logicType ELSE bitType, types)
        after == IF propagated THEN nt.types ELSE type.types
        operands == IF propagated
                    THEN <<contextDetermined(lhs, nt.type), contextDetermined(rhs, nt.type)>>
                    ELSE <<lhs, rhs>>
    IN IF bad(lhs) \/ bad(rhs) THEN yield(badExpr(<<lhs, rhs>>), <<>>, types)
       ELSE IF ~good THEN yield(badExpr(operands), <<"BadBinaryExpression">>, after)
       ELSE yield(expression("BinaryOp", op, type.type, operands), <<>>, after)

\* ConditionalExpression::fromSyntax
conditional(types, pred, left, right) ==
    LET type == binaryOperatorType(types, left.type, right.type, TRUE)
    IN yield(expression("ConditionalOp", "", type.type, <<pred, left, right>>), <<>>, type.types)

\* the types of the declared values the expressions name
DeclaredTypes == {logicType, byteType}

\* the types in the cache of the compilation
cachedTypes(cache) == {cache[k].type : k \in DOMAIN cache}

\* the bound operands a binder step finds: values of the declared and of
\* the cached types, a call of a void function and an invalid expression
Operands(cache) ==
    {leaf("NamedValue", type) : type \in DeclaredTypes \cup cachedTypes(cache)}
        \cup {leaf("Call", voidType), badExpr(<<>>)}
Predicates == {leaf("NamedValue", byteType), badExpr(<<>>)}

\* the sizes of the string literals: a short one, and one of more than
\* 2^BITWIDTH_BITS bits
LiteralSizes == {(2^BITWIDTH_BITS) \div 8 + 1}

\* a step of Expression::create: the expression bound last, with the
\* subroutine it calls, the diagnostics of that step, and the types it left
\* in the compilation
noCallee == [kind |-> "None"]
createdCall(form, callee, operands, step) ==
    /\ step.types.allocated <= MaxTypes
    /\ bound' = [form |-> form, callee |-> callee, operands |-> operands, expr |-> step.expr,
                 diags |-> step.diags, operandDiags |-> step.operandDiags]
    /\ vectorTypeCache' = step.types.cache
    /\ typesAllocated' = step.types.allocated
    /\ UNCHANGED typeCall

created(form, operands, step) == createdCall(form, noCallee, operands, step)
createdOperands(form, step) == created(form, step.expr.operands, step)

compilationTypes == typesOf(vectorTypeCache, typesAllocated)

createStringLiteral ==
    \E size \in LiteralSizes :
        created("StringLiteral", <<>>, stringLiteral(compilationTypes, size))

createPrefixUnary ==
    \E op \in PrefixOperators, operand \in Operands(vectorTypeCache) :
        created("Unary", <<operand>>, prefixUnary(compilationTypes, op, operand))

createPostfixUnary ==
    \E operand \in Operands(vectorTypeCache) :
        created("Unary", <<operand>>, postfixUnary(compilationTypes, operand))

createBinary ==
    \E op \in BinaryOperators, lhs, rhs \in Operands(vectorTypeCache) :
        created("Binary", <<lhs, rhs>>, binary(compilationTypes, op, lhs, rhs))

createConditional ==
    \E pred \in Predicates, left, right \in Operands(vectorTypeCache) :
        created("Conditional", <<pred, left, right>>, conditional(compilationTypes, pred, left, right))

\* Expression::convertAssignment(compilation, type, expr, location, lhsRange)
convertAssignment(types, type, expr) ==
    LET rt == binaryOperatorType(types, type, expr.type, FALSE)
        widened == contextDetermined(expr, rt.type)
    IN IF ~isAssignmentCompatible(type, expr.type)
       THEN yield(badExpr(<<expr>>),
                  <<IF isCastCompatible(type, expr.type) THEN "NoImplicitConversion"
                    ELSE "BadAssignment">>, types)
       ELSE IF getBitWidth(rt.type) > getBitWidth(type)
            THEN yield(convert("IntTruncation", type, widened), <<>>, rt.types)
       ELSE yield(widened, <<>>, rt.types)

\* Expression::checkBindFlags: in a constant context the expression is
\* evaluated, and the diagnostics of the evaluation, if any, are reported
checkBindFlags(notConstant) == IF notConstant THEN <<"ExpressionNotConstant">> ELSE <<>>

\* Expression::bind(compilation, lhs, rhs, location, context), expr being
\* what create made of rhs
bind(types, lhs, expr, notConstant) ==
    IF bad(expr) \/ isError(lhs) THEN yield(expr, <<>>, types)
    ELSE LET converted == convertAssignment(types, lhs, expr)
         IN yield(converted.expr, converted.diags \o checkBindFlags(notConstant), converted.types)

\* AssignmentExpression::fromSyntax; op is the binary operator of a compound
\* assignment
AssignmentOperators == {"", "Add"}
assignment(types, op, lhs, rhs) ==
    LET converted == convertAssignment(types, lhs.type, rhs)
    IN IF bad(lhs) \/ bad(rhs) THEN yield(badExpr(<<lhs, rhs>>), <<>>, types)
       ELSE IF ~isLValue(lhs) THEN yield(badExpr(<<lhs, rhs>>), checkLValue(lhs), types)
       ELSE IF bad(converted.expr)
            THEN yield(badExpr(<<lhs, converted.expr>>), converted.diags, converted.types)
       ELSE yield(expression("Assignment", op, lhs.type, <<lhs, converted.expr>>),
                  converted.diags, converted.types)

\* the left-hand sides an assignment finds: an expression of each kind,
\* values of the target types, and an invalid expression
longIntType == [kind |-> "PredefinedInteger", flags |-> Signed, width |-> 64, left |-> 63, right |-> 0]
TargetTypes == {byteType, longIntType}
Targets ==
    {leaf(kind, byteType) : kind \in ExpressionKinds \ {"Invalid"}}
        \cup {leaf("NamedValue", type) : type \in TargetTypes}
        \cup {badExpr(<<>>)}

\* the right-hand sides: values of integral and floating types, a call of a
\* void function and an invalid expression
ValueTypes == {logicType, byteType, longIntType, shortRealType}
Values ==
    {leaf("NamedValue", type) : type \in ValueTypes} \cup {leaf("Call", voidType), badExpr(<<>>)}

createAssignment ==
    \E op \in AssignmentOperators, lhs \in Targets, rhs \in Values :
        created("Assignment", <<lhs, rhs>>, assignment(compilationTypes, op, lhs, rhs))

\* Expression::bind for an initializer or an argument of the type lhs
bindExpression ==
    \E lhs \in TargetTypes \cup {errorType}, expr \in Values, notConstant \in BOOLEAN :
        created("Bind", <<leaf("DataType", lhs), expr>>, bind(compilationTypes, lhs, expr, notConstant))

\* ReplicationExpression::fromSyntax; left is the bound count, right the
\* bound concatenation, insideConcatenation the flag of the context
intType == [kind |-> "PredefinedInteger", flags |-> Signed, width |-> 32, left |-> 31, right |-> 0]
replication_zeroAnywhere(types, left, right, insideConcatenation) ==
    LET value == left.constant.value
        type == getTypeFrom(types, value * getBitWidth(right.type),
                            IF isFourState(right.type) THEN FourState ELSE 0)
        operands == <<left, right>>
    IN IF bad(left) \/ bad(right) \/ ~left.constant.isInteger
       THEN yield(badExpr(operands), <<>>, types)
       ELSE IF left.constant.hasUnknown
            THEN yield(badExpr(operands), <<"ValueMustNotBeUnknown">>, types)
       ELSE IF value < 0 THEN yield(badExpr(operands), <<"ValueMustBePositive">>, types)
       ELSE IF value = 0
            THEN yield(expression("Replication", "", voidType, operands), <<>>, types)
       ELSE yield(expression("Replication", "", type.type, operands), <<>>, type.types)
replication(types, left, right, insideConcatenation) ==
    LET value == left.constant.value
        type == getTypeFrom(types, value * getBitWidth(right.type),
                            IF isFourState(right.type) THEN FourState ELSE 0)
        operands == <<left, right>>
    IN IF bad(left) \/ bad(right) \/ ~left.constant.isInteger
       THEN yield(badExpr(operands), <<>>, types)
       ELSE IF left.constant.hasUnknown
            THEN yield(badExpr(operands), <<"ValueMustNotBeUnknown">>, types)
       ELSE IF value < 0 THEN yield(badExpr(operands), <<"ValueMustBePositive">>, types)
       ELSE IF value = 0
            THEN IF ~insideConcatenation
                 THEN yield(badExpr(operands), <<"ReplicationZeroOutsideConcat">>, types)
                 ELSE yield(expression("Replication", "", voidType, operands), <<>>, types)
       ELSE yield(expression("Replication", "", type.type, operands), <<>>, type.types)

\* the syntax of an operand of a concatenation: a replication, which the
\* concatenation binds itself, or another expression, taken as bound
replicationSyntax(left, right) ==
    [kind |-> "MultipleConcatenationExpression", left |-> left, right |-> right]
expressionSyntax(expr) == [kind |-> "Expression", expr |-> expr]

\* newWidth < totalWidth: the sum of two bitwidth_t does not fit 32 bits
wraps(totalWidth, width) ==
    (totalWidth \div 2) + (width \div 2) + (((totalWidth % 2) + (width % 2)) \div 2) > 2147483647

\* an operand of a concatenation, bound: a replication is bound here, with
\* the flag InsideConcatenation
concatenationOperand(types, argSyntax) ==
    IF argSyntax.kind = "MultipleConcatenationExpression"
    THEN replication(types, argSyntax.left, argSyntax.right, TRUE)
    ELSE yield(argSyntax.expr, <<>>, types)

\* the body of the loop of ConcatenationExpression::fromSyntax for the
\* operand arg; seen is the state of the loop with arg in the buffer.  The
\* result says whether the loop goes on
concatenationStep(seen, arg, isReplication) ==
    IF bad(arg) THEN [continues |-> FALSE, done |-> [seen EXCEPT !.errored = TRUE]]
    ELSE IF isVoid(arg.type) /\ isReplication THEN [continues |-> TRUE, done |-> seen]
    ELSE IF ~isIntegral(arg.type)
         THEN [continues |-> TRUE,
               done |-> [seen EXCEPT !.errored = TRUE, !.diags = Append(@, "BadConcatExpression")]]
    ELSE IF wraps(seen.totalWidth, getBitWidth(arg.type))
         THEN [continues |-> FALSE,
               done |-> [seen EXCEPT !.errored = TRUE, !.diags = Append(@, "ValueExceedsMaxBitWidth")]]
    ELSE [continues |-> TRUE,
          done |-> [seen EXCEPT !.totalWidth = @ + getBitWidth(arg.type),
                                !.flags = IF isFourState(arg.type) THEN FourState ELSE @]]

\* the operand bound as made, taken into the state of the loop
concatenationBound(done, made, isReplication) ==
    concatenationStep([done EXCEPT !.buffer = Append(@, made.expr),
                                   !.operandDiags = @ \o made.diags,
                                   !.types = made.types],
                      made.expr, isReplication)

\* the loop of ConcatenationExpression::fromSyntax over the operands from
\* the i-th on; done is the state of the loop: errored, flags, totalWidth,
\* buffer, and the diagnostics and types of the compilation
RECURSIVE concatenationLoop(_, _, _)
concatenationLoop(expressions, i, step) ==
    IF i > Len(expressions) \/ ~step.continues THEN step
    ELSE concatenationLoop(expressions, i + 1,
             concatenationBound(step.done, concatenationOperand(step.done.types, expressions[i]),
                                expressions[i].kind = "MultipleConcatenationExpression"))

\* the end of ConcatenationExpression::fromSyntax.  getType asserts that the
\* width is positive: a concatenation of nothing but empty replications
\* fails the assertion
concatenationOf(done, type) ==
    IF done.errored THEN yield(badExpr(done.buffer), done.diags, done.types)
    ELSE IF done.totalWidth = 0
         THEN yield(expression("AssertionFailed", "width > 0", errorType, done.buffer),
                    done.diags, done.types)
    ELSE yield(expression("Concatenation", "", type.type, done.buffer), done.diags, type.types)
concatenationEnd(done) ==
    [concatenationOf(done, getTypeFrom(done.types, done.totalWidth, done.flags))
        EXCEPT !.operandDiags = done.operandDiags]

\* ConcatenationExpression::fromSyntax; the diagnostics of a replication it
\* binds are those of the operand, not its own
concatenation(types, expressions) ==
    concatenationEnd(concatenationLoop(expressions, 1,
        [continues |-> TRUE,
         done |-> [errored |-> FALSE, flags |-> 0, totalWidth |-> 0, buffer |-> <<>>,
                   diags |-> <<>>, operandDiags |-> <<>>, types |-> types]]).done)

\* ElementSelectExpression::fromSyntax
elementSelect(types, value, selector) ==
    LET operands == <<value, selector>>
        valueType == value.type
        type == IF valueType.kind = "PackedArray" THEN getScalarType(valueType.flags)
                ELSE IF isFourState(valueType) THEN logicType ELSE bitType
    IN IF bad(value) \/ bad(selector) THEN yield(badExpr(operands), <<>>, types)
       ELSE IF ~isIntegral(valueType) THEN yield(badExpr(operands), <<"BadIndexExpression">>, types)
       ELSE IF isScalar(valueType) THEN yield(badExpr(operands), <<"CannotIndexScalar">>, types)
       ELSE IF ~isIntegral(selector.type)
            THEN yield(badExpr(operands), <<"IndexMustBeIntegral">>, types)
       ELSE yield(expression("ElementSelect", "", type, operands), <<>>, types)

\* RangeSelectExpression::fromSyntax; the packed array of the result is
\* created outside the cache
SelectionKinds == {"Simple", "IndexedUp", "IndexedDown"}
rangeWidth(left, right) == IF left < right THEN right - left + 1 ELSE left - right + 1
rangeSelect(types, selectionKind, value, left, right) ==
    LET operands == <<value, left, right>>
        ct == value.type
        elementType == IF ct.kind = "PackedArray" THEN getScalarType(ct.flags)
                       ELSE IF isFourState(ct) THEN logicType ELSE bitType
        width == IF selectionKind = "Simple"
                 THEN rangeWidth(left.constant.value, right.constant.value)
                 ELSE right.constant.value
    IN IF bad(value) \/ bad(left) \/ bad(right) THEN yield(badExpr(operands), <<>>, types)
       ELSE yield(expression("RangeSelect", selectionKind,
                             packedArrayType(elementType, width - 1, 0), operands), <<>>, types)

\* what the name of a call is found to be: no name at all, a name that is
\* not found, a symbol that is no subroutine, a system subroutine whose
\* checkArguments answers with the type given, or a subroutine with its
\* formal arguments and return type
notCallable == [kind |-> "NotAName"]
notFound == [kind |-> "NotFound"]
notASubroutine == [kind |-> "Variable"]
systemSubroutine(type) == [kind |-> "SystemSubroutine", type |-> type]
subroutine(arguments, returnType) ==
    [kind |-> "Subroutine", arguments |-> arguments, returnType |-> returnType]

\* the loop of CallExpression::fromSyntax that binds the i-th actual
\* argument against the type of the i-th formal argument
RECURSIVE bindArguments(_, _, _, _, _)
bindArguments(formalArgs, actualArgs, notConstant, i, done) ==
    IF i > Len(actualArgs) THEN done
    ELSE LET arg == bind(done.types, formalArgs[i], actualArgs[i], notConstant)
         IN bindArguments(formalArgs, actualArgs, notConstant, i + 1,
                [buffer |-> Append(done.buffer, arg.expr),
                 diags |-> done.diags \o arg.diags,
                 types |-> arg.types])

\* CallExpression::fromSyntax; the actual arguments are taken as create has
\* bound them.  The diagnostics of binding an argument against its formal
\* are those of the operand
callExpression(types, callee, actualArgs, notConstant) ==
    CASE callee.kind = "NotAName" -> yield(badExpr(<<>>), <<"ExpressionNotCallable">>, types)
      [] callee.kind = "NotFound" -> yield(badExpr(<<>>), <<>>, types)
      [] callee.kind = "Variable" -> yield(badExpr(<<>>), <<"NotASubroutine">>, types)
      [] callee.kind = "SystemSubroutine" ->
            IF isError(callee.type) \/ \E i \in DOMAIN actualArgs : bad(actualArgs[i])
            THEN yield(badExpr(actualArgs), <<>>, types)
            ELSE yield(expression("Call", "system", callee.type, actualArgs), <<>>, types)
      [] callee.kind = "Subroutine" ->
            IF Len(callee.arguments) < Len(actualArgs)
            THEN yield(badExpr(<<>>), <<"TooManyArguments">>, types)
            ELSE LET made == bindArguments(callee.arguments, actualArgs, notConstant, 1,
                                 [buffer |-> <<>>, diags |-> <<>>, types |-> types])
                 IN [yield(expression("Call", "", callee.returnType, made.buffer), <<>>, made.types)
                        EXCEPT !.operandDiags = made.diags]

\* the operands of a concatenation: values of type bit and logic, an
\* invalid expression and an empty replication of a logic
ConcatenationOperands ==
    {expressionSyntax(leaf("NamedValue", type)) : type \in {bitType, logicType}}
        \cup {expressionSyntax(badExpr(<<>>)),
              replicationSyntax(integerLiteral(0, intType), leaf("Concatenation", logicType))}

\* the counts of a replication: 0, 2, a negative and an unknown value, and
\* a value that is not constant
Counts ==
    {integerLiteral(value, intType) : value \in {0, 2, 0 - 1}}
        \cup {[leaf("IntegerLiteral", logicType) EXCEPT !.constant = unknownInteger],
              leaf("NamedValue", intType), badExpr(<<>>)}

createConcatenation ==
    \E expressions \in upTo(ConcatenationOperands, MaxOperands) \ {<<>>} :
        createdOperands("Concatenation", concatenation(compilationTypes, expressions))

\* a replication that is not an operand of a concatenation: create resets
\* the flags of the context
createReplication ==
    \E left \in Counts, right \in {leaf("Concatenation", bitType), leaf("Concatenation", logicType), badExpr(<<>>)} :
        created("Replication", <<left, right>>, replication(compilationTypes, left, right, FALSE))

\* the values a selector is applied to, and the selectors
Selectable == Values \cup {leaf("NamedValue", packedArrayType(logicType, 7, 0))}
Selectors == {integerLiteral(value, intType) : value \in {0, 3}}

createElementSelect ==
    \E value \in Selectable, selector \in Selectors \cup {leaf("RealLiteral", realType), badExpr(<<>>)} :
        created("ElementSelect", <<value, selector>>, elementSelect(compilationTypes, value, selector))

createRangeSelect ==
    \E selectionKind \in SelectionKinds, value \in Selectable, left, right \in Selectors :
        created("RangeSelect", <<value, left, right>>,
                rangeSelect(compilationTypes, selectionKind, value, left, right))

\* the names called, and the actual arguments
Callees ==
    {notCallable, notFound, notASubroutine, systemSubroutine(intType), systemSubroutine(errorType)}
        \cup {subroutine(arguments, byteType) : arguments \in upTo(TargetTypes, MaxArguments)}
Arguments == {leaf("NamedValue", byteType), leaf("NamedValue", logicType), badExpr(<<>>)}

createCall ==
    \E callee \in Callees, actualArgs \in upTo(Arguments, MaxArguments), notConstant \in BOOLEAN :
        createdCall("Call", callee, actualArgs, callExpression(compilationTypes, callee, actualArgs, notConstant))

InitBinder ==
    bound = [form |-> "None", callee |-> noCallee, operands |-> <<>>, expr |-> badExpr(<<>>),
             diags |-> <<>>, operandDiags |-> <<>>]


(***************************************************************************)
(* The specifications: one component runs, the others stay as constructed. *)
(***************************************************************************)
vars == <<compVars, ppVars, expVars, lexVars, typeVars, bound, pasted, stringified, lookup, parsed>>

\* what a component leaves alone: the variables of the others
notComp == <<ppVars, expVars, lexVars, typeVars, bound, pasted, stringified, lookup, parsed>>
notPP == <<compVars, expVars, lexVars, typeVars, bound, pasted, stringified, lookup, parsed>>
notExp == <<compVars, ppVars, lexVars, typeVars, bound, pasted, stringified, lookup, parsed>>
notLex == <<compVars, ppVars, expVars, typeVars, bound, pasted, stringified, lookup, parsed>>
notTypes == <<compVars, ppVars, expVars, lexVars, bound, pasted, stringified, lookup, parsed>>
notBinder == <<compVars, ppVars, expVars, lexVars, typeCall, pasted, stringified, lookup, parsed>>
notPaste == <<compVars, ppVars, expVars, lexVars, typeVars, bound, stringified, lookup, parsed>>
notStringify == <<compVars, ppVars, expVars, lexVars, typeVars, bound, pasted, lookup, parsed>>
notDefinitions == <<ppVars, expVars, lexVars, typeVars, bound, pasted, stringified, parsed>>
notParser == <<compVars, ppVars, expVars, lexVars, typeVars, bound, pasted, stringified, lookup>>

Init == InitCompilation /\ InitPreprocessor /\ InitExpansionIdle /\ InitLexerIdle /\ InitTypes /\ InitBinder /\ InitPaste /\ InitStringify /\ InitLookup /\ InitParser

Next ==
    \/ (\E tree \in TreePool, sm \in SourceManagers : addSyntaxTree(tree, sm))
          /\ UNCHANGED notComp
    \/ getRoot /\ UNCHANGED notComp
    \/ getSemanticDiagnostics /\ UNCHANGED notComp

Spec == Init /\ [][Next]_vars

NextPP ==
    \/ (\E name \in MacroNames, inverted \in BOOLEAN : handleIfDefDirective(name, inverted))
          /\ UNCHANGED notPP
    \/ (\E name \in MacroNames : handleElsIfDirective(name)) /\ UNCHANGED notPP
    \/ handleElseDirective /\ UNCHANGED notPP
    \/ handleEndIfDirective /\ UNCHANGED notPP
    \/ nextToken /\ UNCHANGED notPP
    \/ (\E name \in MacroNames : handleDefineDirective(name)) /\ UNCHANGED notPP
    \/ (\E name \in MacroNames : handleUndefDirective(name)) /\ UNCHANGED notPP
    \/ handleUndefineAllDirective /\ UNCHANGED notPP
    \/ (\E name \in MacroNames : predefine(name)) /\ UNCHANGED notPP
    \/ (\E name \in MacroNames : undefine(name)) /\ UNCHANGED notPP
    \/ undefineAll /\ UNCHANGED notPP

SpecPreprocessor == Init /\ [][NextPP]_vars

InitMacros == InitCompilation /\ InitPreprocessor /\ InitExpansion /\ InitLexerIdle /\ InitTypes /\ InitBinder /\ InitPaste /\ InitStringify /\ InitLookup /\ InitParser

NextMacros ==
    \/ (\E m \in MacroIds : handleTopLevelMacro(m)) /\ UNCHANGED notExp
    \/ appendBodyToken /\ UNCHANGED notExp
    \/ expandMacro /\ UNCHANGED notExp
    \/ expandReplacementList /\ UNCHANGED notExp

SpecMacros == InitMacros /\ [][NextMacros]_vars

InitLexing == InitCompilation /\ InitPreprocessor /\ InitExpansionIdle /\ InitLexer /\ InitTypes /\ InitBinder /\ InitPaste /\ InitStringify /\ InitLookup /\ InitParser

NextLexing ==
    \/ lex("Normal") /\ UNCHANGED notLex
    \/ lex("Directive") /\ UNCHANGED notLex
    \/ lex("IncludeFileName") /\ UNCHANGED notLex

SpecLexer == InitLexing /\ [][NextLexing]_vars

\* the lexer on the text of a directive
InitDirective ==
    /\ InitCompilation /\ InitPreprocessor /\ InitExpansionIdle /\ InitTypes /\ InitBinder
    /\ InitPaste /\ InitStringify /\ InitLookup /\ InitParser
    /\ source \in DirectiveBuffers
    /\ sourceBuffer = 1
    /\ maxErrors \in 0..MaxErrorLimit
    /\ diagnostics = <<>>
    /\ lexed = result("Normal", "none", "none", 0)
    /\ written = <<>>

SpecDirective == InitDirective /\ [][NextLexing]_vars

NextTypes ==
    \/ (\E width \in Widths, flags \in ScalarFlags : getType(width, flags)) /\ UNCHANGED notTypes

SpecTypes == Init /\ [][NextTypes]_vars

NextOperators ==
    \/ createStringLiteral /\ UNCHANGED notBinder
    \/ createPrefixUnary /\ UNCHANGED notBinder
    \/ createPostfixUnary /\ UNCHANGED notBinder
    \/ createBinary /\ UNCHANGED notBinder
    \/ createConditional /\ UNCHANGED notBinder

SpecOperators == Init /\ [][NextOperators]_vars

NextAssignment ==
    \/ createAssignment /\ UNCHANGED notBinder
    \/ bindExpression /\ UNCHANGED notBinder

SpecAssignment == Init /\ [][NextAssignment]_vars

NextConcatenation ==
    \/ createConcatenation /\ UNCHANGED notBinder
    \/ createReplication /\ UNCHANGED notBinder

SpecConcatenation == Init /\ [][NextConcatenation]_vars

NextCall ==
    \/ createCall /\ UNCHANGED notBinder
    \/ createElementSelect /\ UNCHANGED notBinder
    \/ createRangeSelect /\ UNCHANGED notBinder

SpecCall == Init /\ [][NextCall]_vars

NextPaste ==
    \/ pasteTokens /\ UNCHANGED notPaste

SpecPaste == Init /\ [][NextPaste]_vars

NextStringify ==
    \/ stringifyTokens /\ UNCHANGED notStringify

SpecStringify == Init /\ [][NextStringify]_vars

NextDefinitions ==
    \/ (\E syntax \in DefinitionPool, scope \in Scopes : addDefinitionIn(syntax, scope))
          /\ UNCHANGED notDefinitions
    \/ (\E name \in DefinitionNames, scope \in Scopes : getDefinition(name, scope))
          /\ UNCHANGED notDefinitions

SpecDefinitions == Init /\ [][NextDefinitions]_vars

NextParameters ==
    \/ (\E tree \in ParameterTrees : addSyntaxTree(tree, 1))
          /\ UNCHANGED notComp

SpecParameters == Init /\ [][NextParameters]_vars

NextInstantiations ==
    \/ (\E tree \in InstantiationTrees : addSyntaxTree(tree, 1))
          /\ UNCHANGED notComp

SpecInstantiations == Init /\ [][NextInstantiations]_vars

\* the trees of a session
SessionTrees == {Unit(<<Mod(1, <<>>)>>), Unit(<<Mod(2, <<Inst(1)>>)>>)}

NextSession ==
    \/ (\E tree \in SessionTrees : addSyntaxTree(tree, 1)) /\ UNCHANGED notComp
    \/ createScriptScope /\ UNCHANGED notComp
    \/ (\E k \in 1..MaxScriptScopes, kind \in ScriptMemberKinds : addScriptMember(k, kind))
          /\ UNCHANGED notComp
    \/ getRoot /\ UNCHANGED notComp
    \/ getSemanticDiagnostics /\ UNCHANGED notComp

SpecSession == Init /\ [][NextSession]_vars

NextParser ==
    \/ parseInteger /\ UNCHANGED notParser

SpecParser == Init /\ [][NextParser]_vars

(***************************************************************************)
(* Properties of the compilation manager.                                  *)
(***************************************************************************)
addSyntaxTreeFrame ==
    /\ syntaxTrees' = syntaxTrees
    /\ compilationUnits' = compilationUnits
    /\ instantiatedNames' = instantiatedNames
    /\ diags' = diags

\* C1: a getRoot() call leaves the compilation finalized, it stays finalized, and
\* once it is finalized every addSyntaxTree call returns by throwing the
\* "finalized" logic_error, leaving the syntax trees, the compilation units, the
\* instantiated names and the diagnostics as they were.
C1_FinalizedRefusesTrees ==
    [][ /\ (lastCall'.op = "getRoot" => finalized')
        /\ (finalized => finalized')
        /\ (finalized /\ lastCall'.op = "addSyntaxTree" =>
                /\ lastCall'.result = "logic_error: finalized"
                /\ addSyntaxTreeFrame) ]_vars

C1_Witness ==
    /\ finalized
    /\ syntaxTrees # <<>>
    /\ lastCall.op = "addSyntaxTree"
    /\ lastCall.result = "logic_error: finalized"

\* C2: a getRoot() call that directly follows a getRoot() call changes nothing of
\* the root: no member is added, and the top-level list and the unit list stay
\* the same sequences.
C2_GetRootIdempotent ==
    [][ lastCall.op = "getRoot" /\ lastCall'.op = "getRoot" =>
            /\ rootMembers' = rootMembers
            /\ topInstances' = topInstances
            /\ rootUnits' = rootUnits
            /\ definitionMap' = definitionMap ]_vars

C2_Witness ==
    /\ lastCall.op = "getRoot"
    /\ lastCall.repeated
    /\ Len(topInstances) >= 2

\* C3: every syntax tree the compilation holds uses the compilation's source
\* manager, which is the one of the first tree; an addSyntaxTree call with a tree
\* of another source manager throws and adds no tree, unit or instantiated name.
C3_OneSourceManager ==
    [][ /\ \A i \in 1..Len(syntaxTrees') :
              /\ syntaxTrees'[i].sourceManager = sourceManager'
              /\ syntaxTrees'[i].sourceManager = syntaxTrees'[1].sourceManager
        /\ (/\ lastCall'.op = "addSyntaxTree"
            /\ sourceManager # NoManager
            /\ lastCall'.sm # sourceManager
            => /\ lastCall'.result # "ok"
               /\ addSyntaxTreeFrame
               /\ definitionMap' = definitionMap
               /\ sourceManager' = sourceManager) ]_vars

C3_Witness ==
    /\ ~finalized
    /\ Len(syntaxTrees) >= 1
    /\ lastCall.op = "addSyntaxTree"
    /\ lastCall.result = "logic_error: source manager"

\* The names a syntax node references as instantiations, read off the syntax:
\* an instantiation counts wherever it stands, unless a declaration around it
\* declares a nested definition of that name (the instantiation then refers to
\* the nested definition).
RECURSIVE referencedIn(_, _)
referencedIn(node, hidden) ==
    CASE node.kind = "HierarchyInstantiation" ->
            IF node.type # NoName /\ node.type \notin hidden THEN {node.type} ELSE {}
      [] node.kind \in DeclKinds ->
            LET nested == { node.members[i].header.name :
                              i \in { j \in 1..Len(node.members) :
                                        node.members[j].kind \in DeclKinds } }
            IN UNION { referencedIn(node.members[i], hidden \cup nested) :
                         i \in 1..Len(node.members) }
      [] node.kind \in {"GenerateRegion", "GenerateBlock", "CompilationUnit"} ->
            UNION { referencedIn(node.members[i], hidden) : i \in 1..Len(node.members) }
      [] node.kind = "LoopGenerate" -> referencedIn(node.block, hidden)
      [] node.kind = "CaseGenerate" ->
            UNION { IF node.items[i].kind \in {"DefaultCaseItem", "StandardCaseItem"}
                    THEN referencedIn(node.items[i].clause, hidden) ELSE {} :
                      i \in 1..Len(node.items) }
      [] node.kind = "IfGenerate" ->
            referencedIn(node.block, hidden) \cup
            (IF node.hasElse THEN referencedIn(node.elseClause, hidden) ELSE {})
      [] OTHER -> {}

referencedInTrees ==
    UNION { referencedIn(syntaxTrees[i].root, {}) : i \in 1..Len(syntaxTrees) }

moduleDefinitions ==
    { definitionMap[k] : k \in { q \in DOMAIN definitionMap :
                                   definitionMap[q].kind = "ModuleDeclaration" } }

instancesOf(definition) ==
    { i \in 1..Len(topInstances) : topInstances[i].id = definition.origin }

\* C4: after getRoot() the top-level list holds exactly one instance of every
\* module definition whose name no added tree instantiates, and none of a module
\* definition that some added tree instantiates, wherever the instantiation
\* stands (in a module, an interface, a program or a generate construct).
C4_TopLevelExact ==
    finalized =>
        \A d \in moduleDefinitions :
            Cardinality(instancesOf(d)) = IF d.name \in referencedInTrees THEN 0 ELSE 1

\* C5: the top-level list of the root is ordered by non-decreasing instance name.
C5_TopInstancesSorted ==
    \A i, j \in 1..Len(topInstances) :
        i < j => topInstances[i].name <= topInstances[j].name

C5_Witness ==
    /\ finalized
    /\ Len(topInstances) >= 3



(***************************************************************************)
(* Properties of the preprocessor.                                         *)
(***************************************************************************)

\* C6: over the lifetime of a conditional chain at most one of its branches
\* is active: every frame has had at most one active branch, and exactly one
\* once its `else was seen; anyTaken of a frame never returns to false; and a
\* branch of the innermost chain becomes active only if no earlier sibling
\* was taken.
C6_OneActiveBranch ==
    [][ /\ \A i \in 1..Len(branchStack') :
              /\ branchLog'[i] <= 1
              /\ branchStack'[i].hasElse => branchLog'[i] = 1
        /\ \A i \in 1..Len(branchStack) :
              i <= Len(branchStack') /\ branchStack[i].anyTaken => branchStack'[i].anyTaken
        /\ ( /\ Len(branchStack') = Len(branchStack)
             /\ branchStack # <<>>
             /\ branchStack'[Len(branchStack)] # branchStack[Len(branchStack)]
             /\ branchStack'[Len(branchStack)].currentActive )
           => ~branchStack[Len(branchStack)].anyTaken ]_vars

\* a nested chain whose `else branch is the one that became active, inside a
\* chain whose first branch was taken
C6_Witness ==
    /\ Len(branchStack) = 2
    /\ ppLast.op = "else" /\ ppLast.result = "ok"
    /\ branchStack[2].hasElse /\ branchStack[2].currentActive
    /\ branchStack[1].anyTaken /\ branchStack[1].currentActive

\* C7: a token is passed through exactly when every frame of the branch
\* stack is active; inside a branch not taken the tokens of nested branches
\* are dropped whatever the nested condition is, and with no open chain
\* tokens pass.
C7_TokenNeedsAllFramesActive ==
    ppLast.op = "token" =>
        ( ppLast.result = "passed"
            <=> \A i \in 1..Len(branchStack) : branchStack[i].currentActive )

\* a token dropped in a nested branch that is itself active, the outer not
C7_Witness ==
    /\ ppLast.op = "token" /\ ppLast.result = "disabled"
    /\ Len(branchStack) = 2
    /\ branchStack[2].currentActive
    /\ ~branchStack[1].currentActive

uses(m) == {macroBodies[m][i].macro : i \in {j \in 1..Len(macroBodies[m]) :
                                               macroBodies[m][j].kind = "MacroUsage"}}

RECURSIVE reachIn(_, _)
reachIn(ms, n) == IF n = 0 THEN ms ELSE reachIn(ms \cup UNION {uses(x) : x \in ms}, n - 1)

referencesItself(m) == m \in reachIn(uses(m), MaxMacros)
formsCycle(m) == \E x \in reachIn({m}, MaxMacros) : referencesItself(x)

\* the tokens of an expansion of m, by substitution
RECURSIVE tokensOf(_, _), tokensFrom(_, _, _)
tokensOf(m, fuel) == tokensFrom(m, 1, fuel)
tokensFrom(m, i, fuel) ==
    IF i > Len(macroBodies[m]) \/ fuel = 0 THEN <<>>
    ELSE LET item == macroBodies[m][i] IN
         (IF item.kind = "MacroUsage" THEN tokensOf(item.macro, fuel - 1)
          ELSE <<[kind |-> "Identifier", macro |-> m]>>)
         \o tokensFrom(m, i + 1, fuel)

\* the number of steps an expansion nested at most d deep can take: every
\* item of a body and its end take a step, and every item may be a usage
longestBody == CHOOSE n \in {Len(b) : b \in Bodies} : \A b \in Bodies : Len(b) <= n

RECURSIVE stepLimit(_)
stepLimit(d) == IF d = 0 THEN 0 ELSE (longestBody + 1) + longestBody * stepLimit(d - 1)

tooMany(list) == {i \in 1..Len(list) : list[i] = "TooManyLexerErrors"}

\* C10: a call of lex whose token is not the end of the file and leaves more
\* than maxErrors diagnostics returns EndOfFile and adds TooManyLexerErrors;
\* after that every call in normal mode returns EndOfFile and adds no
\* diagnostic; TooManyLexerErrors is there at most once; and a call that
\* leaves at most maxErrors diagnostics returns the token it lexed.
C10_ErrorCap ==
    [][ /\ Cardinality(tooMany(diagnostics')) <= 1
        /\ (lexed'.token \notin {"none", "EndOfFile"} /\ lexed'.size > maxErrors) =>
              /\ lexed'.kind = "EndOfFile"
              /\ Len(diagnostics') = lexed'.size + 1
              /\ diagnostics'[Len(diagnostics')] = "TooManyLexerErrors"
        /\ (lexed'.token # "none" /\ lexed'.size <= maxErrors) =>
              /\ lexed'.kind = lexed'.token
              /\ tooMany(diagnostics') = {}
        /\ (tooMany(diagnostics) # {} /\ lexed'.mode = "Normal") =>
              /\ lexed'.kind = "EndOfFile"
              /\ diagnostics' = diagnostics ]_vars

\* the first character was one error too many: the letter after it was
\* never lexed, and a later call in normal mode returned EndOfFile
C10_Witness ==
    /\ source = <<NonPrintable, Letter, Nul>>
    /\ maxErrors = 0
    /\ diagnostics = <<"NonPrintableChar", "TooManyLexerErrors">>
    /\ lexed = result("Normal", "EndOfFile", "EndOfFile", 2)


\* C11: on an input lexed without diagnostics, the leading trivia and the
\* raw text of the tokens returned so far are the input up to the current
\* position, byte for byte; once EndOfFile is returned they are the whole
\* input (the terminating '\0' is not part of it).
C11_RoundTrip ==
    diagnostics = <<>> =>
        /\ written = SubSeq(source, 1, sourceBuffer - 1)
        /\ lexed.kind = "EndOfFile" => written = SubSeq(source, 1, Len(source) - 1)

\* a blank and an identifier, lexed to the end
C11_Witness ==
    /\ source = <<" ", "a", "nul">>
    /\ lexed.kind = "EndOfFile"
    /\ diagnostics = <<>>
    /\ written = <<" ", "a">>


(***************************************************************************)
(* Properties of the types and of the expression binder.                   *)
(***************************************************************************)

\* C12: two calls of getType with the same width and flags return the same
\* object, which is created by the first of them only, and the object
\* returned is a packed array over [width-1:0] of the scalar type the flags
\* select.
C12_TypeInterning ==
    [][ typeCall'.width > 0 =>
          /\ typeCall'.type.kind = "PackedArray"
          /\ typeCall'.type.left = typeCall'.width - 1
          /\ typeCall'.type.right = 0
          /\ typeCall'.type.flags = typeCall'.flags
          /\ (typeCall.width = typeCall'.width /\ typeCall.flags = typeCall'.flags) =>
                /\ typeCall'.ptr = typeCall.ptr
                /\ typesAllocated' = typesAllocated ]_vars

\* C13: for integral lt and rt, binaryOperatorType(lt, rt, f), the type of
\* an arithmetic operator (f false for +, &; true for /, %) and of a
\* conditional operator (f true), has the width of the wider operand, is
\* four-state iff f holds or an operand is four-state, and is signed iff
\* both operands are signed.
C13_OperatorType ==
    LET arithmetic == bound.form = "Binary" /\ bound.expr.kind = "BinaryOp"
                          /\ bound.expr.op \in ArithmeticOperators
        lt == bound.operands[Len(bound.operands) - 1].type
        rt == bound.operands[Len(bound.operands)].type
        f == bound.form = "Conditional" \/ bound.expr.op \in {"Divide", "Mod"}
        type == bound.expr.type
    IN ((arithmetic \/ bound.form = "Conditional") /\ isIntegral(lt) /\ isIntegral(rt)) =>
          /\ getBitWidth(type) = max(getBitWidth(lt), getBitWidth(rt))
          /\ isFourState(type) <=> (f \/ isFourState(lt) \/ isFourState(rt))
          /\ isSigned(type) <=> (isSigned(lt) /\ isSigned(rt))

\* C14: an expression is an lvalue exactly when its kind is NamedValue,
\* ElementSelect, RangeSelect or MemberAccess: an assignment to a good
\* expression of another kind is rejected as not assignable, an assignment
\* to one of these four never is.
C14_LValueKinds ==
    LET lhs == bound.operands[1]
        rhs == bound.operands[2]
        lvalue == lhs.kind \in {"NamedValue", "ElementSelect", "RangeSelect", "MemberAccess"}
    IN (bound.form = "Assignment" /\ ~bad(lhs) /\ ~bad(rhs)) =>
          /\ isLValue(lhs) <=> lvalue
          /\ ("ExpressionNotAssignable" \in {bound.diags[i] : i \in DOMAIN bound.diags}) <=> ~lvalue
          /\ ~lvalue => bad(bound.expr)

C14_Witness ==
    /\ bound.form = "Assignment"
    /\ bound.operands[1].kind = "MemberAccess"
    /\ bound.expr.kind = "Assignment"
    /\ bound.diags = <<>>

\* the forms of expression whose operands the binder binds
OperatorForms ==
    {"Unary", "Binary", "Conditional", "Assignment", "ElementSelect", "RangeSelect",
     "Concatenation", "Replication", "Call"}

\* C15: when an operand of a unary, binary, conditional, assignment, select,
\* concatenation, replication or call expression is bad, the expression is
\* bad too and binding it adds no diagnostic.
C15_BadOperandIsSilent ==
    (bound.form \in OperatorForms /\ \E i \in DOMAIN bound.operands : bad(bound.operands[i])) =>
        /\ bad(bound.expr)
        /\ bound.diags = <<>>

\* the truncation conversions wrapped around an expression
RECURSIVE truncations(_)
truncations(expr) ==
    IF expr.kind # "Conversion" THEN 0
    ELSE (IF expr.op = "IntTruncation" THEN 1 ELSE 0) + truncations(expr.operands[1])

\* C16: converting an expression e for an assignment to an integral type T
\* it is assignment compatible with adds no diagnostic; the result is one
\* truncation conversion of type T around e iff e is wider than T, and
\* otherwise has no truncation conversion and the width of T.
C16_AssignmentConversion ==
    LET T == bound.operands[1].type
        e == bound.operands[2]
        converted == bound.expr.operands[2]
    IN (bound.form = "Assignment" /\ bound.expr.kind = "Assignment"
            /\ isIntegral(T) /\ isAssignmentCompatible(T, e.type)) =>
          /\ bound.diags = <<>>
          /\ getBitWidth(e.type) > getBitWidth(T) =>
                /\ truncations(converted) = 1
                /\ converted.op = "IntTruncation"
                /\ converted.type = T
          /\ getBitWidth(e.type) <= getBitWidth(T) =>
                /\ truncations(converted) = 0
                /\ getBitWidth(converted.type) = getBitWidth(T)

\* C17: in a bound assignment or compound assignment the right operand has
\* the width, the signedness and the four-state-ness of the type of the
\* left operand, and the assignment has the type of the left operand.
C17_RightHasLeftType ==
    LET lt == bound.operands[1].type
        right == bound.expr.operands[2]
    IN (bound.form = "Assignment" /\ bound.expr.kind = "Assignment") =>
          /\ getBitWidth(right.type) = getBitWidth(lt)
          /\ isSigned(right.type) <=> isSigned(lt)
          /\ isFourState(right.type) <=> isFourState(lt)
          /\ bound.expr.type = lt

\* an empty replication among the bound operands of a concatenation
isEmptyReplication(expr) ==
    expr.kind = "Replication" /\ expr.operands[1].constant = integer(0)

\* the operands of a concatenation that are no empty replications
RECURSIVE widthOf(_)
widthOf(operands) ==
    IF operands = <<>> THEN 0
    ELSE (IF isEmptyReplication(Head(operands)) THEN 0 ELSE getBitWidth(Head(operands).type))
            + widthOf(Tail(operands))

C19_ArgumentCount ==
    LET formalArgs == bound.callee.arguments
        actualArgs == bound.operands
    IN (bound.form = "Call" /\ bound.callee.kind = "Subroutine") =>
          /\ Len(actualArgs) # Len(formalArgs) => bad(bound.expr) /\ bound.diags # <<>>
          /\ ~bad(bound.expr) =>
                /\ Len(actualArgs) = Len(formalArgs)
                /\ \A i \in DOMAIN actualArgs :
                      bound.expr.operands[i] =
                          bind(compilationTypes, formalArgs[i], actualArgs[i], FALSE).expr

(***************************************************************************)
(* Properties of token concatenation.                                      *)
(***************************************************************************)

C21_StringifyAsserts ==
    stringified.token # emptyToken => stringified.token.kind = "StringLiteral"

(***************************************************************************)
(* Properties of the lexer in a directive.                                 *)
(***************************************************************************)

\* a line ending that no backslash comes right before
endsLine(text, j) == isNewline(text[j]) /\ (j = 1 \/ text[j - 1] # Backslash)

\* a backslash right before a line ending
continuesLine(text, i) == text[i] = Backslash /\ i < Len(text) /\ isNewline(text[i + 1])

\* C22: a call of lex in directive mode that goes over a line ending with no
\* backslash right before it stops there and returns EndOfDirective, the
\* line ending being trivia; a backslash right before a line ending is
\* consumed together with it as trivia and the call goes on after it; a
\* call in normal mode never returns EndOfDirective.  (Calls that hit the
\* error limit are left aside.)
C22_EndOfDirective ==
    [][ LET consumed == sourceBuffer..(sourceBuffer' - 1)
            marker == lexTrivia(source, sourceBuffer, TRUE, diagnostics).pos
        IN /\ (lexed'.mode = "Directive" /\ tooMany(diagnostics') = {}) =>
                 /\ \A j \in consumed :
                       endsLine(source, j) =>
                          /\ lexed'.kind = "EndOfDirective"
                          /\ lexed'.token = "none"
                          /\ sourceBuffer' = j + 1
                 /\ \A i \in consumed :
                       continuesLine(source, i) => i + 1 < marker
           /\ lexed'.mode = "Normal" => lexed'.kind # "EndOfDirective" ]_vars

(***************************************************************************)
(* Properties of the lookup of definitions.                                *)
(***************************************************************************)

\* the scopes from a scope up to the root
RECURSIVE parentChain(_)
parentChain(scope) ==
    IF scopeKind(scope) = "Root" THEN <<scope>> ELSE <<scope>> \o parentChain(getParent(scope))

\* where a definition added for a scope counts as registered
registeredAt(definition) ==
    IF scopeKind(definition.origin.scope) = "CompilationUnit" THEN RootScope
    ELSE definition.origin.scope

definitionsOf(name, scope) ==
    {d \in {definitionMap[k] : k \in DOMAIN definitionMap} : d.name = name /\ registeredAt(d) = scope}

\* C23: getDefinition(name, scope) returns the definition registered for the
\* name at the nearest scope from scope up to the root, a definition added
\* for a compilation unit counting as registered at the root; it returns
\* none when no scope on that chain has one, and never a definition that is
\* registered at a scope outside that chain.
C23_NearestDefinition ==
    LET chain == parentChain(lookup.scope)
        having == {i \in 1..Len(chain) : definitionsOf(lookup.name, chain[i]) # {}}
    IN lookup.name # NoName =>
          /\ having = {} => lookup.definition = noDefinition
          /\ having # {} =>
                \E i \in having :
                    /\ \A j \in having : i <= j
                    /\ lookup.definition \in definitionsOf(lookup.name, chain[i])
          /\ lookup.definition # noDefinition =>
                \E i \in 1..Len(chain) : registeredAt(lookup.definition) = chain[i]

\* a module added in one compilation unit is found from the other, and a
\* module of the same name nested in an instance is found from inside it
C23_Witness ==
    /\ lookup.scope = "top.inner"
    /\ lookup.definition.origin.scope = "top"
    /\ \E k \in DOMAIN definitionMap :
          /\ definitionMap[k].origin.scope = "unit1"
          /\ definitionMap[k].name = lookup.name

(***************************************************************************)
(* Properties of the parameters of a definition.                           *)
(***************************************************************************)

\* the syntax a definition of the map was made from
syntaxOf(definition) ==
    membersOf(syntaxTrees[definition.origin[1]].root)[definition.origin[2]]

\* the parameters of a sequence of declarations, in order, as name, isPort
\* and isLocal; local[i] says whether those of the i-th declaration are local
RECURSIVE declared(_, _, _, _)
declared(declarations, i, isPort, local) ==
    IF i > Len(declarations) THEN <<>>
    ELSE [k \in 1..Len(declarations[i].declarators) |->
             [name |-> declarations[i].declarators[k].name, isPort |-> isPort,
              isLocal |-> local[i]]]
         \o declared(declarations, i + 1, isPort, local)

\* the parameter declarations among the members of a body
RECURSIVE bodyDeclarations(_)
bodyDeclarations(members) ==
    IF members = <<>> THEN <<>>
    ELSE (IF Head(members).kind = "ParameterDeclarationStatement"
          THEN <<Head(members).parameter>> ELSE <<>>)
         \o bodyDeclarations(Tail(members))

\* C24: the parameters of a definition are those of the header, then those
\* of the body, in the order declared; a port parameter has isPort and is
\* local iff the nearest declaration at or before its own that has a
\* keyword has localparam; a body parameter has no isPort and is local iff
\* the header has a parameter port list or its declaration has localparam.
C24_ParameterOrder ==
    \A key \in DOMAIN definitionMap :
        LET definition == definitionMap[key]
            syntax == syntaxOf(definition)
            ports == IF syntax.header.hasParameters THEN syntax.header.parameters ELSE <<>>
            body == bodyDeclarations(syntax.members)
            portLocal ==
                [i \in 1..Len(ports) |->
                    LET keyed == {j \in 1..i : ports[j].keyword # ""}
                    IN \E j \in keyed : /\ \A q \in keyed : q <= j
                                        /\ ports[j].keyword = "localparam"]
            bodyLocal ==
                [i \in 1..Len(body) |->
                    syntax.header.hasParameters \/ body[i].keyword = "localparam"]
        IN [k \in 1..Len(definition.parameters) |->
               [name |-> definition.parameters[k].name,
                isPort |-> definition.parameters[k].isPort,
                isLocal |-> definition.parameters[k].isLocal]]
           = declared(ports, 1, TRUE, portLocal) \o declared(body, 1, FALSE, bodyLocal)

\* a port without keyword after localparam, one before any keyword, and a
\* body parameter of a module without parameter port list
C24_Witness ==
    /\ \E key \in DOMAIN definitionMap :
          \E k \in 1..Len(definitionMap[key].parameters) :
              /\ ~definitionMap[key].parameters[1].isLocal
              /\ definitionMap[key].parameters[k].name = 4
              /\ definitionMap[key].parameters[k].isLocal
              /\ definitionMap[key].parameters[k].isPort
    /\ \E key \in DOMAIN definitionMap :
          /\ ~syntaxOf(definitionMap[key]).header.hasParameters
          /\ definitionMap[key].parameters # <<>>
          /\ ~definitionMap[key].parameters[1].isLocal

(***************************************************************************)
(* Properties of the scan for instantiations.                              *)
(***************************************************************************)

\* the members of the trees that are scanned: the module declarations
scannedMembers ==
    UNION { { membersOf(syntaxTrees[i].root)[k] :
                k \in { q \in 1..Len(membersOf(syntaxTrees[i].root)) :
                          scannedForInstantiations(membersOf(syntaxTrees[i].root)[q]) } } :
            i \in 1..Len(syntaxTrees) }

\* C25: the instantiated names are the type names, not empty, of the
\* instantiations in the scanned modules that no declaration around the
\* instantiation declares as a direct member; the names a declaration
\* hides are hidden only inside it; and instantiations below generate
\* regions, generate blocks, loop, case and if generates, in both branches,
\* count.
C25_InstantiatedNames ==
    instantiatedNames = UNION { referencedIn(member, {}) : member \in scannedMembers }

\* a name hidden in a nested declaration and instantiated after it, next to
\* a module that instantiates only a name it declares itself
C25_Witness ==
    /\ Len(syntaxTrees) = 2
    /\ syntaxTrees[1].root = Unit(<<Mod(3, <<Mod(1, <<>>), Inst(1)>>)>>)
    /\ syntaxTrees[2].root = Unit(<<Mod(1, <<Ifc(1, <<Prog(2, <<>>), Inst(2)>>), Inst(2)>>)>>)
    /\ instantiatedNames = {2}

(***************************************************************************)
(* Properties of forcing the diagnostics.                                  *)
(***************************************************************************)

\* C26: when getSemanticDiagnostics returns, every symbol reachable from
\* the root has been visited by the forcing visitor, after any sequence of
\* addSyntaxTree, createScriptScope, additions of members to a script
\* scope, getRoot and earlier requests for the diagnostics.
C26_EverySymbolVisited ==
    lastCall.op = "getSemanticDiagnostics" => reachable(rootMembers, scriptMembers) \subseteq visited

(***************************************************************************)
(* Properties of integer literals.                                         *)
(***************************************************************************)

\* the digits of a literal as written: no underscores, no leading zeros
RECURSIVE writtenDigits(_, _)
writtenDigits(text, leading) ==
    IF text = <<>> THEN <<>>
    ELSE IF Head(text) = "_" \/ (leading /\ Head(text) = "0")
    THEN writtenDigits(Tail(text), leading)
    ELSE <<getDigitValue(Head(text))>> \o writtenDigits(Tail(text), FALSE)

\* whether the number of the digits a is greater than that of b, of the same length
RECURSIVE greaterDigits(_, _)
greaterDigits(a, b) ==
    /\ a # <<>>
    /\ \/ Head(a) > Head(b)
       \/ Head(a) = Head(b) /\ greaterDigits(Tail(a), Tail(b))

\* the written value exceeds 2^31 - 1
exceedsInt32(text) ==
    LET number == writtenDigits(text, TRUE)
    IN \/ Len(number) > 10
       \/ Len(number) = 10 /\ greaterDigits(number, <<2, 1, 4, 7, 4, 8, 3, 6, 4, 7>>)

hasDiagnostic(code, location) ==
    \E i \in 1..Len(parsed.diags) :
        parsed.diags[i].code = code /\ parsed.diags[i].location = location

\* C27: the token of an unbased decimal literal holds a 32-bit signed
\* value; the parser reports SignedIntegerOverflow for such a literal
\* exactly when its written value exceeds 2^31 - 1, and LiteralSizeIsZero
\* for a sized literal exactly when the written size is 0.
C27_IntegerLiterals ==
    \A i \in 1..Len(parsed.expressions) :
        LET expr == parsed.expressions[i] IN
        /\ expr.value \in (0 - INT32_MAX - 1)..INT32_MAX
        /\ ~expr.sized =>
              (hasDiagnostic("SignedIntegerOverflow", i) <=> exceedsInt32(expr.text))
        /\ expr.sized =>
              (hasDiagnostic("LiteralSizeIsZero", i) <=> writtenDigits(expr.text, TRUE) = <<>>)

(***************************************************************************)
(* Properties of the flags of the compilation.                             *)
(***************************************************************************)

\* C28: forcedDiagnostics implies finalized in every state: a request for
\* the semantic diagnostics leaves the compilation finalized, so that a
\* later addSyntaxTree fails, and no addSyntaxTree succeeds while
\* forcedDiagnostics is true.
C28_ForcedImpliesFinalized ==
    [][/\ forcedDiagnostics' => finalized'
       /\ lastCall'.op = "getSemanticDiagnostics" => finalized'
       /\ finalized /\ lastCall'.op = "addSyntaxTree" => lastCall'.result # "ok"
       /\ Len(syntaxTrees') > Len(syntaxTrees) => ~forcedDiagnostics]_vars

\* a tree refused after the diagnostics were forced
C28_Witness ==
    /\ forcedDiagnostics
    /\ finalized
    /\ lastCall.op = "addSyntaxTree"
    /\ lastCall.result # "ok"
    /\ Len(syntaxTrees) > 0

(***************************************************************************)
(* Properties of the width of a concatenation.                             *)
(***************************************************************************)

\* C29: a concatenation that is bound without an error asks getType for a
\* width greater than 0, so the assertion width > 0 of getType holds for
\* every concatenation, also for one whose operands are all replications
\* with the count 0.
C29_ConcatenationWidth ==
    bound.form = "Concatenation" => bound.expr.kind # "AssertionFailed"

(***************************************************************************)
(* Properties of definitions of one name.                                  *)
(***************************************************************************)

\* the declarations of a name among the members of the trees, each as
\* <<unit, index in the unit>>
declarationsOf(name) ==
    UNION { { <<u, i>> : i \in { j \in 1..Len(membersOf(syntaxTrees[u].root)) :
                                   /\ membersOf(syntaxTrees[u].root)[j].kind \in DeclKinds
                                   /\ membersOf(syntaxTrees[u].root)[j].header.name = name } } :
            u \in 1..Len(syntaxTrees) }

\* the declaration of the name added first
firstAdded(name) ==
    CHOOSE d \in declarationsOf(name) :
        \A e \in declarationsOf(name) : d[1] < e[1] \/ (d[1] = e[1] /\ d[2] <= e[2])

\* C30: a definition added for a name and scope that hold a definition
\* leaves the first one in place without a diagnostic: of the definitions
\* of one name added for compilation units, getDefinition returns the one
\* added first, and getRoot instantiates no other one of them.
C30_FirstDefinitionStays ==
    /\ \A name \in Names :
          LET found == getDefinitionFrom(definitionMap, name, "unit1") IN
          IF declarationsOf(name) = {} THEN found = noDefinition
          ELSE /\ found.origin = firstAdded(name)
               /\ found.kind = membersOf(syntaxTrees[firstAdded(name)[1]].root)[firstAdded(name)[2]].kind
    /\ \A i \in 1..Len(topInstances) : topInstances[i].id = firstAdded(topInstances[i].name)
    /\ \A i \in 1..Len(diags) :
          diags[i] \in {"BodyParamNoInitializer", "LocalParamNoInitializer"}

\* a module, a later declaration of its name in another unit, and the
\* root made with the instance of the module
C30_Witness ==
    /\ finalized
    /\ Len(syntaxTrees) = 2
    /\ Cardinality(declarationsOf(1)) = 2
    /\ definitionMap[<<1, RootScope>>].kind = "ModuleDeclaration"
    /\ definitionMap[<<1, RootScope>>].origin = <<1, 1>>
    /\ \E i \in 1..Len(topInstances) : topInstances[i].name = 1

====
